---------------------------- MODULE Spec2Model ----------------------------
(***************************************************************************)
(* A model of the ytsgo client library (ytsgo.go, movie.go).               *)
(*                                                                         *)
(* Strings.  A Go string is modelled as a sequence of tokens.  A token is  *)
(* either one of the characters : / ? & = + % and space, or a "word": a    *)
(* maximal run of characters that url.QueryEscape leaves alone (letters,   *)
(* digits, '-', '_', '.', '~').  What the code does to a string (scanning  *)
(* for ':', '/', '?', escaping, joining) is done on the tokens.  Map keys  *)
(* that are literals of the code ("movie_id", "tr", ...) are TLA+ strings. *)
(***************************************************************************)
EXTENDS Integers, Sequences, FiniteSets, TLC

VARIABLES
    c,              \* the *Client the caller makes its lookups on (Nil: none)
    pc,             \* where the caller is: about to call ("new", "magnet",
                    \* "unmarshal"), between lookups ("idle"), or back from a
                    \* call ("returned")
    op,             \* the operation that returned last
    args,           \* the arguments of the pending or the last call
    req,            \* the *http.Request built by that call
    rsp,            \* the *http.Response received by that call
    ret,            \* what the call returned: [val, err, panicked]
    roundTrips,     \* the requests that call put on the network
    calls,          \* the lookups parallel callers have under way on c
    DefaultTackers  \* package variable DefaultTackers (movie.go)

vars == <<c, pc, op, args, req, rsp, ret, roundTrips, calls, DefaultTackers>>

---------------------------------------------------------------------------
(* Bounds of the model                                                     *)

MaxOpts == 2        \* ClientOptions passed to New
MaxMovieOpts == 2   \* MovieOptions passed to Movie
MaxLMOpts == 2      \* ListMoviesOptions passed to ListMovies
MaxUint == 52       \* the largest argument of LMLimit, LMPage and LMMinimumRating
MaxTorrents == 2    \* entries of a movie's "torrents" array
MaxMovies == 2      \* entries of a "movies" array
NumCallers == 2     \* callers making lookups on one client in parallel
MaxTrackers == 2    \* trackers passed to Magnet

---------------------------------------------------------------------------
(* Generic helpers on sequences                                            *)

BoundedSeq(S, n) == UNION {[1..k -> S] : k \in 0..n}

\* strings.Index on tokens: the first position of t in s, 0 when absent
IndexOf(s, t) ==
    IF \E i \in 1..Len(s) : s[i] = t
    THEN CHOOSE i \in 1..Len(s) : s[i] = t /\ \A j \in 1..(i-1) : s[j] # t
    ELSE 0

\* strings.LastIndex on tokens
LastIndexOf(s, t) ==
    IF \E i \in 1..Len(s) : s[i] = t
    THEN CHOOSE i \in 1..Len(s) : s[i] = t /\ \A j \in (i+1)..Len(s) : s[j] # t
    ELSE 0

Count(s, t) == Cardinality({i \in 1..Len(s) : s[i] = t})

\* strings.HasPrefix for a prefix of n tokens t
HasPrefix(s, t, n) == Len(s) >= n /\ \A i \in 1..n : s[i] = t

---------------------------------------------------------------------------
(* fmt.Sprintf("%v", n) for integers: decimal digits, most significant     *)
(* first, with a leading "-" for negatives.  Each digit is one token.      *)


RECURSIVE FormatNat(_)
FormatNat(n) ==
    IF n >= 10 THEN FormatNat(n \div 10) \o FormatNat(n % 10)
    ELSE <<(<<"0", "1", "2", "3", "4", "5", "6", "7", "8", "9">>)[n + 1]>>

FormatInt(n) == IF n < 0 THEN <<"-">> \o FormatNat(0 - n) ELSE FormatNat(n)

\* fmt.Sprintf("%v", b) for booleans
FormatBool(b) == IF b THEN <<"true">> ELSE <<"false">>

---------------------------------------------------------------------------
(* net/url as the client uses it                                           *)

NoURL == [Scheme |-> <<>>, Opaque |-> <<>>, Host |-> <<>>, Path |-> <<>>,
          RawQuery |-> <<>>, ForceQuery |-> FALSE]

\* url.getScheme; the words listed are those that can be a scheme (a letter
\* first, then letters, digits, '-', '.')
getScheme(s) ==
    IF s = <<>> THEN [err |-> "", scheme |-> <<>>, rest |-> s]
    ELSE IF s[1] = ":" THEN [err |-> "missing protocol scheme", scheme |-> <<>>, rest |-> s]
    ELSE IF /\ s[1] \in {"http", "https", "udp", "h", "a", "b", "k", "v", "api", "v2", "yts.lt"}
            /\ Len(s) >= 2 /\ s[2] = ":"
         THEN [err |-> "", scheme |-> <<s[1]>>, rest |-> SubSeq(s, 3, Len(s))]
    ELSE [err |-> "", scheme |-> <<>>, rest |-> s]

\* url.validOptionalPort applied to the authority: after a ':' only digits
\* (the words listed are those made of digits)
validAuthority(a) ==
    LET i == LastIndexOf(a, ":") IN
    \/ i = 0
    \/ i = Len(a)
    \/ (i = Len(a) - 1 /\ a[Len(a)] \in {"80", "1337", "6969", "8080"})

\* url.parse after the query is cut off: the authority and the path
parseAuthority(scheme, rest0, rawq, force) ==
    LET rootless == rest0 = <<>> \/ rest0[1] # "/"
        slash == IndexOf(rest0, "/")
        seg1 == IF slash > 0 THEN SubSeq(rest0, 1, slash - 1) ELSE rest0
        hasAuth == (scheme # <<>> \/ ~HasPrefix(rest0, "/", 3)) /\ HasPrefix(rest0, "/", 2)
        after == SubSeq(rest0, 3, Len(rest0))
        i == IndexOf(after, "/")
        auth == IF ~hasAuth THEN <<>>
                ELSE IF i > 0 THEN SubSeq(after, 1, i - 1) ELSE after
        path == IF ~hasAuth THEN rest0
                ELSE IF i > 0 THEN SubSeq(after, i, Len(after)) ELSE <<>>
    IN
    IF rootless /\ scheme # <<>>
    THEN [err |-> "", u |-> [NoURL EXCEPT !.Scheme = scheme, !.Opaque = rest0,
                                          !.RawQuery = rawq, !.ForceQuery = force]]
    ELSE IF rootless /\ IndexOf(seg1, ":") > 0
    THEN [err |-> "first path segment in URL cannot contain colon", u |-> NoURL]
    ELSE IF ~validAuthority(auth) THEN [err |-> "invalid port after host", u |-> NoURL]
    ELSE [err |-> "", u |-> [Scheme |-> scheme, Opaque |-> <<>>, Host |-> auth,
                             Path |-> path, RawQuery |-> rawq, ForceQuery |-> force]]

\* url.parse after getScheme: a lone trailing "?" forces an empty query,
\* otherwise the query is what follows the first "?"
parseRest(g) ==
    IF g.err # "" THEN [err |-> g.err, u |-> NoURL]
    ELSE
    LET force == Len(g.rest) >= 1 /\ g.rest[Len(g.rest)] = "?" /\ Count(g.rest, "?") = 1
        q == IndexOf(g.rest, "?")
    IN
    parseAuthority(g.scheme,
                   IF force THEN SubSeq(g.rest, 1, Len(g.rest) - 1)
                   ELSE IF q > 0 THEN SubSeq(g.rest, 1, q - 1) ELSE g.rest,
                   IF force \/ q = 0 THEN <<>> ELSE SubSeq(g.rest, q + 1, Len(g.rest)),
                   force)

\* url.Parse (url.parse with viaRequest = false); fragments are not modelled
ParseURL(s) == parseRest(getScheme(s))

\* the loop of url.resolvePath over the "/"-separated elements of `full`:
\* dst is the output built so far (it starts as "/"), first says whether an
\* element may be written without a separating "/"
RECURSIVE resolveLoop(_, _, _)
resolveLoop(remaining, dst, first) ==
    LET i == IndexOf(remaining, "/")
        found == i > 0
        elem == IF found THEN SubSeq(remaining, 1, i - 1) ELSE remaining
        next == IF found THEN SubSeq(remaining, i + 1, Len(remaining)) ELSE <<>>
        str == Tail(dst)
        idx == LastIndexOf(str, "/")
        dst2 == IF elem = <<".">> THEN dst
                ELSE IF elem = <<"..">>
                     THEN IF idx = 0 THEN <<"/">> ELSE <<"/">> \o SubSeq(str, 1, idx - 1)
                ELSE (IF first THEN dst ELSE dst \o <<"/">>) \o elem
        first2 == IF elem = <<".">> THEN FALSE
                  ELSE IF elem = <<"..">> THEN (IF idx = 0 THEN TRUE ELSE first)
                  ELSE FALSE
    IN
    IF found THEN resolveLoop(next, dst2, first2)
    ELSE IF elem = <<".">> \/ elem = <<"..">> THEN dst2 \o <<"/">>
    ELSE dst2

\* url.resolvePath; at its end a leading "//" of the result becomes "/"
resolvePath(base, ref) ==
    LET i == LastIndexOf(base, "/")
        full == IF ref = <<>> THEN base
                ELSE IF ref[1] # "/" THEN SubSeq(base, 1, i) \o ref
                ELSE ref
        r == resolveLoop(full, <<"/">>, TRUE)
    IN
    IF full = <<>> THEN <<>>
    ELSE IF Len(r) > 1 /\ r[2] = "/" THEN Tail(r) ELSE r

\* (*URL).ResolveReference (no user info)
ResolveReference(u, ref) ==
    LET url == IF ref.Scheme = <<>> THEN [ref EXCEPT !.Scheme = u.Scheme] ELSE ref IN
    IF ref.Scheme # <<>> \/ ref.Host # <<>>
    THEN [url EXCEPT !.Path = resolvePath(ref.Path, <<>>)]
    ELSE IF ref.Opaque # <<>>
    THEN [url EXCEPT !.Host = <<>>, !.Path = <<>>]
    ELSE
    LET inherit == ref.Path = <<>> /\ ~ref.ForceQuery /\ ref.RawQuery = <<>>
        url2 == IF inherit THEN [url EXCEPT !.RawQuery = u.RawQuery] ELSE url
    IN
    IF ref.Path = <<>> /\ u.Opaque # <<>>
    THEN [url2 EXCEPT !.Opaque = u.Opaque, !.Host = <<>>, !.Path = <<>>]
    ELSE [url2 EXCEPT !.Host = u.Host, !.Path = resolvePath(u.Path, ref.Path)]

\* (*URL).String
URLString(u) ==
    LET sch == IF u.Scheme # <<>> THEN u.Scheme \o <<":">> ELSE <<>>
        auth == IF u.Scheme # <<>> \/ u.Host # <<>>
                THEN (IF u.Host # <<>> \/ u.Path # <<>> THEN <<"/", "/">> ELSE <<>>) \o u.Host
                ELSE <<>>
        sep == IF u.Path # <<>> /\ u.Path[1] # "/" /\ u.Host # <<>> THEN <<"/">> ELSE <<>>
        slash == IndexOf(u.Path, "/")
        seg1 == IF slash > 0 THEN SubSeq(u.Path, 1, slash - 1) ELSE u.Path
        dot == IF sch \o auth \o sep = <<>> /\ IndexOf(seg1, ":") > 0
               THEN <<".", "/">> ELSE <<>>
        body == IF u.Opaque # <<>> THEN u.Opaque ELSE auth \o sep \o dot \o u.Path
        qry == IF u.ForceQuery \/ u.RawQuery # <<>> THEN <<"?">> \o u.RawQuery ELSE <<>>
    IN sch \o body \o qry


\* url.QueryEscape on one token: words pass, ' ' becomes '+', the rest is %XX
escapeToken(t) ==
    CASE t = " " -> "+"
      [] t = ":" -> "%3A"
      [] t = "/" -> "%2F"
      [] t = "?" -> "%3F"
      [] t = "&" -> "%26"
      [] t = "=" -> "%3D"
      [] t = "+" -> "%2B"
      [] t = "%" -> "%25"
      [] OTHER -> t

QueryEscape(s) == [i \in 1..Len(s) |-> escapeToken(s[i])]

\* url.QueryUnescape on one token ("%" alone is an invalid escape)
unescapeToken(t) ==
    CASE t = "+" -> " "
      [] t = "%3A" -> ":"
      [] t = "%2F" -> "/"
      [] t = "%3F" -> "?"
      [] t = "%26" -> "&"
      [] t = "%3D" -> "="
      [] t = "%2B" -> "+"
      [] t = "%25" -> "%"
      [] OTHER -> t

QueryUnescape(s) ==
    IF \E i \in 1..Len(s) : s[i] = "%"
    THEN [err |-> TRUE, s |-> <<>>]
    ELSE [err |-> FALSE, s |-> [i \in 1..Len(s) |-> unescapeToken(s[i])]]

\* url.Values: a map from key to the list of its values
EmptyValues == [k \in {} |-> <<>>]

\* Values.Set
ValuesSet(v, k, x) == [kk \in (DOMAIN v) \cup {k} |-> IF kk = k THEN <<x>> ELSE v[kk]]

\* Values.Add
ValuesAdd(v, k, x) ==
    [kk \in (DOMAIN v) \cup {k} |->
        IF kk = k THEN (IF k \in DOMAIN v THEN Append(v[k], x) ELSE <<x>>) ELSE v[kk]]

\* the keys the program uses, in the byte order Values.Encode sorts them into
KeyOrder == <<"", "dn", "genre", "k", "limit", "minimum_rating", "movie_id", "order_by",
              "page", "quality", "query_term", "sort_by", "tr", "with_cast", "with_images">>

\* the "k=v" pairs of one key, each preceded by "&"
RECURSIVE encodeKey(_, _)
encodeKey(k, vs) ==
    IF vs = <<>> THEN <<>>
    ELSE <<"&", k, "=">> \o QueryEscape(Head(vs)) \o encodeKey(k, Tail(vs))

RECURSIVE encodeFrom(_, _)
encodeFrom(v, i) ==
    IF i > Len(KeyOrder) THEN <<>>
    ELSE (IF KeyOrder[i] \in DOMAIN v THEN encodeKey(KeyOrder[i], v[KeyOrder[i]]) ELSE <<>>)
         \o encodeFrom(v, i + 1)

\* Values.Encode: keys sorted, values in insertion order, joined by "&"
Encode(v) == LET e == encodeFrom(v, 1) IN IF e = <<>> THEN <<>> ELSE Tail(e)

\* the body of url.parseQuery's loop once the pair is cut at "=" and both
\* halves are unescaped: a pair that does not unescape is skipped.  A key is
\* one token (or empty); the model's inputs have no key of several tokens.
addPair(m, k, x) ==
    IF k.err \/ x.err \/ Len(k.s) > 1 THEN m
    ELSE ValuesAdd(m, IF k.s = <<>> THEN "" ELSE k.s[1], x.s)

\* one "key=value" pair of a query added to m
parsePair(m, pair) ==
    LET e == IndexOf(pair, "=") IN
    IF pair = <<>> THEN m
    ELSE addPair(m, QueryUnescape(IF e > 0 THEN SubSeq(pair, 1, e - 1) ELSE pair),
                    QueryUnescape(IF e > 0 THEN SubSeq(pair, e + 1, Len(pair)) ELSE <<>>))

\* url.ParseQuery, errors dropped as URL.Query does
RECURSIVE parseQueryInto(_, _)
parseQueryInto(q, m) ==
    IF q = <<>> THEN m
    ELSE
    LET a == IndexOf(q, "&") IN
    parseQueryInto(IF a > 0 THEN SubSeq(q, a + 1, Len(q)) ELSE <<>>,
                   parsePair(m, IF a > 0 THEN SubSeq(q, 1, a - 1) ELSE q))

ParseQuery(q) == parseQueryInto(q, EmptyValues)

---------------------------------------------------------------------------
(* ytsgo.go: constants, Client, New                                        *)

DefaultBaseURL == <<"https", ":", "/", "/", "yts.lt", "/", "api", "/", "v2", "/">>
statusOK == <<"ok">>
DefaultTimeout == 10    \* seconds

urls == [movieURL |-> <<"movie_details.json">>,
         listMoviesURL |-> <<"list_movies.json">>,
         suggestionsURL |-> <<"movie_suggestions.json">>]

\* a nil pointer, slice or interface
Nil == [nil |-> TRUE]
IsNil(x) == "nil" \in DOMAIN x

NoErr == [kind |-> "none", a |-> <<>>, b |-> <<>>]
Err(kind, a, b) == [kind |-> kind, a |-> a, b |-> b]

\* a ClientOption applied to the client under construction
applyClientOption(o, cl) ==
    CASE o.opt = "BaseURL" -> [cl EXCEPT !.baseURLStr = o.url]
      [] o.opt = "HTTPTimeout" -> [cl EXCEPT !.timeout = o.d]
      [] o.opt = "UserAgent" -> [cl EXCEPT !.userAgent = o.ua]

\* for _, o := range opts { o(c) }
RECURSIVE applyClientOptions(_, _)
applyClientOptions(opts, cl) ==
    IF opts = <<>> THEN cl
    ELSE applyClientOptions(Tail(opts), applyClientOption(Head(opts), cl))

\* the client New starts from
newClient == [baseURLStr |-> DefaultBaseURL, baseURL |-> Nil, userAgent |-> <<>>,
              timeout |-> DefaultTimeout, urls |-> [k \in {} |-> Nil]]

\* New handing out the client it was building together with the error
parseClientURLsPartial(cl, p) ==
    IF p.err # "" THEN [c |-> cl, err |-> Err("config", <<p.err>>, <<>>)]
    ELSE [c |-> [cl EXCEPT !.baseURL = p.u,
                           !.urls = [k \in DOMAIN urls |-> ParseURL(urls[k]).u]],
          err |-> NoErr]

\* New once the options are applied (ytsgo.go 73-86): p is url.Parse of
\* the base URL
parseClientURLs(cl, p) ==
    LET bad == {k \in DOMAIN urls : ParseURL(urls[k]).err # ""} IN
    IF p.err # "" THEN [c |-> Nil, err |-> Err("config", <<p.err>>, <<>>)]
    ELSE IF bad # {} THEN [c |-> Nil, err |-> Err("config", <<"urls">>, <<>>)]
    ELSE [c |-> [cl EXCEPT !.baseURL = p.u,
                           !.urls = [k \in DOMAIN urls |-> ParseURL(urls[k]).u]],
          err |-> NoErr]

\* New: the pair (client, error) it returns
NewResult(opts) ==
    LET cl == applyClientOptions(opts, newClient) IN
    parseClientURLs(cl, ParseURL(cl.baseURLStr))

\* http.NewRequest("GET", urlStr, nil), p being url.Parse(urlStr)
httpNewRequest(p) ==
    IF p.err # "" THEN [err |-> Err("transport", <<p.err>>, <<>>), req |-> Nil]
    ELSE [err |-> NoErr,
          req |-> [Method |-> "GET", URL |-> p.u, Header |-> [k \in {} |-> <<>>]]]

\* req.Header.Set("Accept", ...) and, with a user agent, Set("User-Agent", ...)
setHeaders(cl, r) ==
    IF r.err.kind # "none" THEN r
    ELSE [r EXCEPT !.req.Header =
            IF cl.userAgent # <<>>
            THEN [k \in {"Accept", "User-Agent"} |->
                     IF k = "Accept" THEN <<"application", "/", "json">> ELSE cl.userAgent]
            ELSE [k \in {"Accept"} |-> <<"application", "/", "json">>]]

\* (*Client).newRequest: the request, or the error of http.NewRequest
newRequest(cl, u, params) ==
    setHeaders(cl, httpNewRequest(ParseURL(URLString([u EXCEPT !.RawQuery = Encode(params)]))))

---------------------------------------------------------------------------
(* JSON documents and encoding/json as movie.go uses it.                   *)
(* A document is a tree: a field of an object that the document does not   *)
(* have is JAbsent.  Only the fields the code converts or post-processes   *)
(* are modelled (titles, URLs, timestamps, torrents, cast, the envelope);  *)
(* the other scalar fields are copied by encoding/json and never read.     *)

JAbsent == [k |-> "absent"]
JNull == [k |-> "null"]
JStr(s) == [k |-> "str", s |-> s]
JNum(n, frac) == [k |-> "num", n |-> n, frac |-> frac]   \* frac: the literal has a fraction
JArr(items) == [k |-> "arr", items |-> items]
JObj(f) == [k |-> "obj", f |-> f]

\* a JSON value decoded into a Go string field
decStr(j) ==
    CASE j.k \in {"absent", "null"} -> [err |-> FALSE, v |-> <<>>]
      [] j.k = "str" -> [err |-> FALSE, v |-> j.s]
      [] OTHER -> [err |-> TRUE, v |-> <<>>]

\* an int64 field that takes the integer part of a literal with a fraction
decIntTruncating(j) ==
    CASE j.k \in {"absent", "null"} -> [err |-> FALSE, v |-> 0]
      [] j.k = "num" -> [err |-> FALSE, v |-> j.n]
      [] OTHER -> [err |-> TRUE, v |-> 0]

\* a JSON value decoded into a Go int64 field: a literal with a fraction is
\* an UnmarshalTypeError
decInt(j) ==
    CASE j.k \in {"absent", "null"} -> [err |-> FALSE, v |-> 0]
      [] j.k = "num" -> IF j.frac THEN [err |-> TRUE, v |-> 0] ELSE [err |-> FALSE, v |-> j.n]
      [] OTHER -> [err |-> TRUE, v |-> 0]

\* parseTime: time.Unix(unix, 0)
parseTime(unix) == [sec |-> unix, nsec |-> 0]

\* parseURL: the parsed URL, or the error of url.Parse
parseURL(str) == ParseURL(str)


\* the end of (*Torrent).UnmarshalJSON: u is parseURL of the raw "url"
torrentWithURL(hash, unix, u) ==
    IF u.err # "" THEN [err |-> TRUE, t |-> Nil]
    ELSE [err |-> FALSE,
          t |-> [URL |-> u.u, Hash |-> hash, DateUploaded |-> parseTime(unix),
                 DateUploadedUnix |-> unix, movieName |-> <<>>]]

\* (*Torrent).UnmarshalJSON
TorrentUnmarshalJSON(j) ==
    IF j.k # "obj" THEN [err |-> TRUE, t |-> Nil]
    ELSE
    LET raw == decStr(j.f.url)
        hash == decStr(j.f.hash)
        unix == decInt(j.f.date_uploaded_unix)
    IN
    IF raw.err \/ hash.err \/ unix.err THEN [err |-> TRUE, t |-> Nil]
    ELSE torrentWithURL(hash.v, unix.v, parseURL(raw.v))

\* the end of (*Cast).UnmarshalJSON: u is parseURL of the raw "url_small_image"
castWithURL(name, u) ==
    IF u.err # "" THEN [err |-> TRUE, c |-> Nil]
    ELSE [err |-> FALSE, c |-> [Name |-> name, URLSmallImage |-> u.u]]

\* (*Cast).UnmarshalJSON
CastUnmarshalJSON(j) ==
    IF j.k # "obj" THEN [err |-> TRUE, c |-> Nil]
    ELSE
    LET raw == decStr(j.f.url_small_image)
        name == decStr(j.f.name)
    IN
    IF raw.err \/ name.err THEN [err |-> TRUE, c |-> Nil]
    ELSE castWithURL(name.v, parseURL(raw.v))

\* a JSON value decoded into []*Torrent: the entries are decoded one by
\* one, and null entries become nil pointers
decTorrents(j) ==
    CASE j.k \in {"absent", "null"} -> [err |-> FALSE, v |-> <<>>]
      [] j.k = "arr" ->
            [err |-> \E i \in 1..Len(j.items) :
                        /\ j.items[i].k # "null"
                        /\ TorrentUnmarshalJSON(j.items[i]).err,
             v |-> [i \in 1..Len(j.items) |->
                        IF j.items[i].k = "null" THEN Nil
                        ELSE TorrentUnmarshalJSON(j.items[i]).t]]
      [] OTHER -> [err |-> TRUE, v |-> <<>>]

\* a JSON value decoded into []*Cast
decCast(j) ==
    CASE j.k \in {"absent", "null"} -> [err |-> FALSE, v |-> <<>>]
      [] j.k = "arr" ->
            [err |-> \E i \in 1..Len(j.items) :
                        /\ j.items[i].k # "null"
                        /\ CastUnmarshalJSON(j.items[i]).err,
             v |-> [i \in 1..Len(j.items) |->
                        IF j.items[i].k = "null" THEN Nil
                        ELSE CastUnmarshalJSON(j.items[i]).c]]
      [] OTHER -> [err |-> TRUE, v |-> <<>>]

\* the loop over m.Torrents ending after its first round
setMovieNameFirst(torrents, title) ==
    [i \in 1..Len(torrents) |->
        IF i = 1 THEN [torrents[i] EXCEPT !.movieName = title] ELSE torrents[i]]

\* for _, t := range m.Torrents { t.movieName = m.Title }
setMovieName(torrents, title) ==
    [i \in 1..Len(torrents) |-> [torrents[i] EXCEPT !.movieName = title]]

\* (*Movie).UnmarshalJSON from the URL parsing on (movie.go 53-79): parsed
\* holds parseURL of the six raw URL fields, in the order the code parses them
\* (url, background_image, background_image_original, small_cover_image,
\* medium_cover_image, large_cover_image)
movieWithURLs(title, unix, torrents, cast, parsed) ==
    IF \E i \in 1..6 : parsed[i].err # ""
    THEN [res |-> "err", m |-> Nil]
    ELSE IF \E i \in 1..Len(torrents) : IsNil(torrents[i])
    THEN [res |-> "panic", m |-> Nil]
    ELSE [res |-> "ok",
          m |-> [Title |-> title,
                 URLs |-> [i \in 1..6 |-> parsed[i].u],
                 DateUploaded |-> parseTime(unix),
                 DateUploadedUnix |-> unix,
                 Torrents |-> setMovieName(torrents, title),
                 Cast |-> cast]]

\* (*Movie).UnmarshalJSON once json.Unmarshal has filled the alias struct
\* (movie.go 49-52): an error of it is returned
movieFromAlias(title, raws, unix, tors, cast) ==
    IF title.err \/ unix.err \/ tors.err \/ cast.err \/ (\E i \in 1..6 : raws[i].err)
    THEN [res |-> "err", m |-> Nil]
    ELSE movieWithURLs(title.v, unix.v, tors.v, cast.v,
                       [i \in 1..6 |-> parseURL(raws[i].v)])

\* (*Movie).UnmarshalJSON: res is "ok", "err" (an error is returned) or
\* "panic" (the loop over m.Torrents dereferences a nil *Torrent)
MovieUnmarshalJSON(j) ==
    IF j.k \notin {"obj", "null"} THEN [res |-> "err", m |-> Nil]
    ELSE
    LET f == IF j.k = "obj" THEN j.f
             ELSE [title |-> JAbsent, urls |-> [i \in 1..6 |-> JAbsent],
                   date_uploaded_unix |-> JAbsent, torrents |-> JAbsent, cast |-> JAbsent]
    IN
    movieFromAlias(decStr(f.title), [i \in 1..6 |-> decStr(f.urls[i])],
                   decInt(f.date_uploaded_unix), decTorrents(f.torrents), decCast(f.cast))

\* a JSON value decoded into *Movie
decMoviePtr(j) ==
    IF j.k \in {"absent", "null"} THEN [res |-> "ok", m |-> Nil]
    ELSE MovieUnmarshalJSON(j)

\* the entry h decoded in front of the entries t decoded after it: the first
\* entry that fails or panics ends the decoding
consMovie(h, t) ==
    IF h.res # "ok" THEN [res |-> h.res, v |-> <<>>]
    ELSE IF t.res # "ok" THEN t
    ELSE [res |-> "ok", v |-> <<h.m>> \o t.v]

\* a JSON value decoded into []*Movie, entry by entry
RECURSIVE decMovieItems(_)
decMovieItems(items) ==
    IF items = <<>> THEN [res |-> "ok", v |-> <<>>]
    ELSE consMovie(decMoviePtr(Head(items)), decMovieItems(Tail(items)))

decMovies(j) ==
    CASE j.k \in {"absent", "null"} -> [res |-> "ok", v |-> <<>>]
      [] j.k = "arr" -> decMovieItems(j.items)
      [] OTHER -> [res |-> "err", v |-> <<>>]

\* a JSON value decoded into a Go uint field
decUint(j) ==
    CASE j.k \in {"absent", "null"} -> [err |-> FALSE, v |-> 0]
      [] j.k = "num" -> IF j.frac \/ j.n < 0 THEN [err |-> TRUE, v |-> 0]
                        ELSE [err |-> FALSE, v |-> j.n]
      [] OTHER -> [err |-> TRUE, v |-> 0]


toSlice(isArr, d) ==
    [res |-> d.res, v |-> IF isArr /\ d.res = "ok" THEN [items |-> d.v] ELSE Nil]

\* the "movies" field decoded into a []*Movie: nil when absent or null
decMovieSlice(j) == toSlice(j.k = "arr", decMovies(j))

\* The response envelopes.  The keys of a body are decoded in the order
\* status, status_message, data.  A type mismatch is recorded and decoding
\* goes on; an error of an UnmarshalJSON method ends it; a panic unwinds.

\* what json.Decode makes of the outcome of the nested decoding (res) and of
\* the type mismatches it recorded
decodeRes(res, mismatch) == IF res # "ok" THEN res ELSE IF mismatch THEN "err" ELSE "ok"

\* the data field of the envelope: an object, or nothing to decode
dataField(body, key) == IF body.data.k = "obj" THEN body.data.f[key] ELSE JAbsent

\* the status fields and the data are of a wrong JSON type
envelopeMismatch(body) ==
    \/ decStr(body.status).err
    \/ decStr(body.status_message).err
    \/ body.data.k \notin {"absent", "null", "obj"}

movieDetails(body, mv) ==
    [res |-> decodeRes(mv.res, envelopeMismatch(body)),
     Status |-> decStr(body.status).v, StatusMessage |-> decStr(body.status_message).v,
     Movie |-> mv.m]

\* json.Decode into a movieDetailsResponse
decodeMovieDetails(body) == movieDetails(body, decMoviePtr(dataField(body, "movie")))

listMovies(body, cnt, lim, pg, mvs, res) ==
    [res |-> res,
     Status |-> decStr(body.status).v, StatusMessage |-> decStr(body.status_message).v,
     Data |-> IF body.data.k = "obj" /\ res = "ok"
              THEN [MovieCount |-> cnt.v, Page |-> pg.v, Limit |-> lim.v, Movies |-> mvs.v]
              ELSE Nil]

listMoviesFields(body, cnt, lim, pg, mvs) ==
    listMovies(body, cnt, lim, pg, mvs,
               decodeRes(mvs.res, envelopeMismatch(body) \/ cnt.err \/ lim.err \/ pg.err))

\* json.Decode into a listMoviesResponse (Data is a *Movies)
decodeListMovies(body) ==
    listMoviesFields(body, decUint(dataField(body, "movie_count")),
                     decUint(dataField(body, "limit")),
                     decUint(dataField(body, "page_number")),
                     decMovieSlice(dataField(body, "movies")))

suggestions(body, cnt, mvs, res) ==
    [res |-> res,
     Status |-> decStr(body.status).v, StatusMessage |-> decStr(body.status_message).v,
     Data |-> [MovieCount |-> cnt.v, Movies |-> IF res = "ok" THEN mvs.v ELSE Nil]]

suggestionsFields(body, cnt, mvs) ==
    suggestions(body, cnt, mvs, decodeRes(mvs.res, envelopeMismatch(body) \/ cnt.err))

\* json.Decode into a suggestionsResponse (Data is a struct)
decodeSuggestions(body) ==
    suggestionsFields(body, decUint(dataField(body, "movie_count")),
                      decMovieSlice(dataField(body, "movies")))

---------------------------------------------------------------------------
(* Query options                                                           *)

\* MovieWithImages adding the parameter for an enabled flag only
MovieWithImagesIfTrue(b, v) == IF b THEN ValuesAdd(v, "with_images", FormatBool(b)) ELSE v

\* MovieWithImages(b) applied to v
MovieWithImages(b, v) == ValuesAdd(v, "with_images", FormatBool(b))

\* MovieWithCast(b) applied to v
MovieWithCast(b, v) == ValuesAdd(v, "with_cast", FormatBool(b))

applyMovieOption(o, v) ==
    CASE o.opt = "MovieWithImages" -> MovieWithImages(o.b, v)
      [] o.opt = "MovieWithCast" -> MovieWithCast(o.b, v)

\* for _, o := range opts { o(params) } in Movie
RECURSIVE applyMovieOptions(_, _)
applyMovieOptions(opts, v) ==
    IF opts = <<>> THEN v
    ELSE applyMovieOptions(Tail(opts), applyMovieOption(Head(opts), v))

LimitMax == 50
RatingMax == 9

\* LMLimit without the clamp
LMLimitUnclamped(l, v) == ValuesSet(v, "limit", FormatInt(l))

LMLimit(l, v) == ValuesSet(v, "limit", FormatInt(IF l > LimitMax THEN LimitMax ELSE l))
LMPage(p, v) == ValuesSet(v, "page", FormatInt(p))
LMQuality(q, v) == ValuesSet(v, "quality", q)
LMMinimumRating(r, v) ==
    ValuesSet(v, "minimum_rating", FormatInt(IF r > RatingMax THEN RatingMax ELSE r))
\* LMSearch adding to the values of the parameter instead of replacing them
LMSearchAdd(q, v) == ValuesAdd(v, "query_term", q)

LMSearch(q, v) == ValuesSet(v, "query_term", q)
LMGenre(g, v) == ValuesSet(v, "genre", g)
LMSortBy(s, v) == ValuesSet(v, "sort_by", s)
LMOrderBy(s, v) == ValuesSet(v, "order_by", s)

applyListMoviesOption(o, v) ==
    CASE o.opt = "LMLimit" -> LMLimit(o.n, v)
      [] o.opt = "LMPage" -> LMPage(o.n, v)
      [] o.opt = "LMQuality" -> LMQuality(o.s, v)
      [] o.opt = "LMMinimumRating" -> LMMinimumRating(o.n, v)
      [] o.opt = "LMSearch" -> LMSearch(o.s, v)
      [] o.opt = "LMGenre" -> LMGenre(o.s, v)
      [] o.opt = "LMSortBy" -> LMSortBy(o.s, v)
      [] o.opt = "LMOrderBy" -> LMOrderBy(o.s, v)

\* for _, o := range opts { o(params) } in ListMovies
RECURSIVE applyListMoviesOptions(_, _)
applyListMoviesOptions(opts, v) ==
    IF opts = <<>> THEN v
    ELSE applyListMoviesOptions(Tail(opts), applyListMoviesOption(Head(opts), v))

---------------------------------------------------------------------------
(* The three lookups                                                       *)


StatusText(code) ==
    CASE code = 200 -> <<"200", " ", "OK">>
      [] code = 404 -> <<"404", " ", "Not", " ", "Found">>
      [] code = 500 -> <<"500", " ", "Internal", " ", "Server", " ", "Error">>

\* the redirect policy of an http.Client whose CheckRedirect is nil (the
\* client New makes): the redirect that would be the 11th request is refused
MaxRedirects == 10

\* c.httpClient.Do(req): the transport refuses a URL it cannot dial.  Otherwise
\* the network decides (net): the client follows the redirects the server
\* answers with (net.redirects of them, each a round trip of its own, the
\* bodies closed by the client) until the policy refuses one; then the
\* exchange fails or times out (net.fail), or a response arrives, whose body
\* the caller is to read and close.  The client's Timeout runs until the body
\* is read: net.timeout says that it expires while the body is being read.
Do(request, net) ==
    IF request.URL.Scheme \notin {<<"http">>, <<"https">>}
    THEN [err |-> Err("transport", <<"unsupported protocol scheme">>, <<>>), rsp |-> Nil,
          trips |-> 0]
    ELSE IF request.URL.Host = <<>>
    THEN [err |-> Err("transport", <<"no Host in request URL">>, <<>>), rsp |-> Nil,
          trips |-> 0]
    ELSE IF net.redirects >= MaxRedirects
    THEN [err |-> Err("transport", <<"stopped after 10 redirects">>, <<>>), rsp |-> Nil,
          trips |-> MaxRedirects]
    ELSE IF net.fail
    THEN [err |-> Err("transport", <<"network">>, <<>>), rsp |-> Nil,
          trips |-> net.redirects + 1]
    ELSE [err |-> NoErr,
          rsp |-> [StatusCode |-> net.StatusCode, Status |-> StatusText(net.StatusCode),
                   Body |-> net.Body, timedOut |-> net.timeout, closed |-> FALSE],
          trips |-> net.redirects + 1]

\* fmt.Errorf("server returned code %v: %s", rsp.StatusCode, rsp.Status)
httpError(r) == Err("http", FormatInt(r.StatusCode), r.Status)
\* the error of json.Decode
decodeError == Err("decode", <<>>, <<>>)
\* the error json.Decode hands on when reading the body fails: the client's
\* Timeout expired
readError == Err("transport", <<"timeout">>, <<>>)
\* fmt.Errorf("api returned incorrect status %s: %s", Status, StatusMessage)
apiError(d) == Err("api", d.Status, d.StatusMessage)

Ret(val, err) == [val |-> val, err |-> err, panicked |-> FALSE]
Panic(nilval) == [val |-> nilval, err |-> NoErr, panicked |-> TRUE]

\* defer rsp.Body.Close()
closeBody(r) == [r EXCEPT !.closed = TRUE]

\* what a lookup leaves behind: the client, the request it built, the
\* response it received, the round trips it took, and what it returned
Outcome(cl, request, response, trips, r) ==
    [c |-> cl, req |-> request, rsp |-> response, trips |-> trips, ret |-> r]

\* Movie with the API status looked at before the outcome of the decoding
movieDecodedStatusFirst(data) ==
    IF data.Status # statusOK THEN Ret(Nil, apiError(data))
    ELSE IF data.res = "panic" THEN Panic(Nil)
    ELSE IF data.res = "err" THEN Ret(Nil, decodeError)
    ELSE Ret(data.Movie, NoErr)

\* Movie, after the decoding (ytsgo.go 127-133)
movieDecoded(data) ==
    IF data.res = "panic" THEN Panic(Nil)
    ELSE IF data.res = "err" THEN Ret(Nil, decodeError)
    ELSE IF data.Status # statusOK THEN Ret(Nil, apiError(data))
    ELSE Ret(data.Movie, NoErr)

\* Movie decoding the body before it looks at the response code
MovieReturnDecodeFirst(r) ==
    IF ~r.Body.wf THEN Ret(Nil, decodeError)
    ELSE IF decodeMovieDetails(r.Body).res = "err" THEN Ret(Nil, decodeError)
    ELSE IF r.StatusCode # 200 THEN Ret(Nil, httpError(r))
    ELSE movieDecoded(decodeMovieDetails(r.Body))

\* Movie, from the status check on (ytsgo.go 123-133)
MovieReturn(r) ==
    IF r.StatusCode # 200 THEN Ret(Nil, httpError(r))
    ELSE IF r.timedOut THEN Ret(Nil, readError)
    ELSE IF ~r.Body.wf THEN Ret(Nil, decodeError)
    ELSE movieDecoded(decodeMovieDetails(r.Body))

\* Movie closing the body after the check of the response code, on the
\* paths that go on to read it
movieDoneCloseWhenRead(cl, request, d) ==
    IF d.err.kind # "none" THEN Outcome(cl, request, Nil, d.trips, Ret(Nil, d.err))
    ELSE Outcome(cl, request, IF d.rsp.StatusCode = 200 THEN closeBody(d.rsp) ELSE d.rsp,
                 d.trips, MovieReturn(d.rsp))

\* Movie, once the request is sent (ytsgo.go 118-133)
movieDone(cl, request, d) ==
    IF d.err.kind # "none" THEN Outcome(cl, request, Nil, d.trips, Ret(Nil, d.err))
    ELSE Outcome(cl, request, closeBody(d.rsp), d.trips, MovieReturn(d.rsp))

\* Movie, once the request is built (ytsgo.go 113-133)
movieSend(cl, nr, net) ==
    IF nr.err.kind # "none" THEN Outcome(cl, Nil, Nil, 0, Ret(Nil, nr.err))
    ELSE movieDone(cl, nr.req, Do(nr.req, net))

\* Movie, the request for the resolved URL u (ytsgo.go 109-113)
movieRequest(cl, u, id, opts) ==
    newRequest(cl, u, applyMovieOptions(opts,
                          ValuesSet(ParseQuery(u.RawQuery), "movie_id", FormatInt(id))))

\* (*Client).Movie
MovieCall(cl, id, opts, net) ==
    movieSend(cl, movieRequest(cl, ResolveReference(cl.baseURL, cl.urls["movieURL"]),
                               id, opts),
              net)

\* ListMovies, after the decoding (ytsgo.go 232-238)
listMoviesDecoded(data) ==
    IF data.res = "panic" THEN Panic(Nil)
    ELSE IF data.res = "err" THEN Ret(Nil, decodeError)
    ELSE IF data.Status # statusOK THEN Ret(Nil, apiError(data))
    ELSE Ret(data.Data, NoErr)

\* ListMovies, from the status check on (ytsgo.go 228-238)
ListMoviesReturn(r) ==
    IF r.StatusCode # 200 THEN Ret(Nil, httpError(r))
    ELSE IF r.timedOut THEN Ret(Nil, readError)
    ELSE IF ~r.Body.wf THEN Ret(Nil, decodeError)
    ELSE listMoviesDecoded(decodeListMovies(r.Body))

\* ListMovies, once the request is sent (ytsgo.go 223-238)
listMoviesDone(cl, request, d) ==
    IF d.err.kind # "none" THEN Outcome(cl, request, Nil, d.trips, Ret(Nil, d.err))
    ELSE Outcome(cl, request, closeBody(d.rsp), d.trips, ListMoviesReturn(d.rsp))

\* ListMovies, once the request is built (ytsgo.go 219-238)
listMoviesSend(cl, nr, net) ==
    IF nr.err.kind # "none" THEN Outcome(cl, Nil, Nil, 0, Ret(Nil, nr.err))
    ELSE listMoviesDone(cl, nr.req, Do(nr.req, net))

\* ListMovies, the request for the resolved URL u (ytsgo.go 215-219)
listMoviesRequest(cl, u, opts) ==
    newRequest(cl, u, applyListMoviesOptions(opts, ParseQuery(u.RawQuery)))

\* (*Client).ListMovies
ListMoviesCall(cl, opts, net) ==
    listMoviesSend(cl, listMoviesRequest(cl,
                           ResolveReference(cl.baseURL, cl.urls["listMoviesURL"]), opts),
                   net)

\* Suggestions, after the decoding (ytsgo.go 259-265)
suggestionsDecoded(data) ==
    IF data.res = "panic" THEN Panic(Nil)
    ELSE IF data.res = "err" THEN Ret(Nil, decodeError)
    ELSE IF data.Status # statusOK THEN Ret(Nil, apiError(data))
    ELSE Ret(data.Data.Movies, NoErr)

\* Suggestions taking a body it cannot decode for an empty answer
SuggestionsReturnLenient(r) ==
    IF r.StatusCode # 200 THEN Ret(Nil, httpError(r))
    ELSE IF ~r.Body.wf THEN Ret([items |-> <<>>], NoErr)
    ELSE suggestionsDecoded(decodeSuggestions(r.Body))

\* Suggestions, from the status check on (ytsgo.go 255-265)
SuggestionsReturn(r) ==
    IF r.StatusCode # 200 THEN Ret(Nil, httpError(r))
    ELSE IF r.timedOut THEN Ret(Nil, readError)
    ELSE IF ~r.Body.wf THEN Ret(Nil, decodeError)
    ELSE suggestionsDecoded(decodeSuggestions(r.Body))

\* Suggestions, once the request is sent (ytsgo.go 250-265)
suggestionsDone(cl, request, d) ==
    IF d.err.kind # "none" THEN Outcome(cl, request, Nil, d.trips, Ret(Nil, d.err))
    ELSE Outcome(cl, request, closeBody(d.rsp), d.trips, SuggestionsReturn(d.rsp))

\* Suggestions, once the request is built (ytsgo.go 246-265)
suggestionsSend(cl, nr, net) ==
    IF nr.err.kind # "none" THEN Outcome(cl, Nil, Nil, 0, Ret(Nil, nr.err))
    ELSE suggestionsDone(cl, nr.req, Do(nr.req, net))

\* Suggestions, the request for the resolved URL u (ytsgo.go 243-246)
suggestionsRequest(cl, u, id) ==
    newRequest(cl, u, ValuesSet(ParseQuery(u.RawQuery), "movie_id", FormatInt(id)))

\* Suggestions resolving the endpoint of Movie
SuggestionsCallMovieURL(cl, id, net) ==
    suggestionsSend(cl, suggestionsRequest(cl,
                            ResolveReference(cl.baseURL, cl.urls["movieURL"]), id),
                    net)

\* (*Client).Suggestions
SuggestionsCall(cl, id, net) ==
    suggestionsSend(cl, suggestionsRequest(cl,
                            ResolveReference(cl.baseURL, cl.urls["suggestionsURL"]), id),
                    net)

---------------------------------------------------------------------------
(* movie.go: Magnet and a direct json.Unmarshal into a Movie               *)

DefaultTackersInit ==
    << <<"udp", ":", "/", "/", "open.demonii.com", ":", "1337", "/", "announce">>,
       <<"udp", ":", "/", "/", "tracker.openbittorrent.com", ":", "80">>,
       <<"udp", ":", "/", "/", "tracker.coppersurfer.tk", ":", "6969">>,
       <<"udp", ":", "/", "/", "glotorrents.pw", ":", "6969", "/", "announce">>,
       <<"udp", ":", "/", "/", "tracker.opentrackr.org", ":", "1337", "/", "announce">>,
       <<"udp", ":", "/", "/", "torrent.gresille.org", ":", "80", "/", "announce">>,
       <<"udp", ":", "/", "/", "p4p.arenabg.com", ":", "1337">>,
       <<"udp", ":", "/", "/", "tracker.leechers-paradise.org", ":", "6969">> >>

\* for _, tr := range trckrs { v.Add("tr", tr) }
RECURSIVE addTrackers(_, _)
addTrackers(v, trckrs) ==
    IF trckrs = <<>> THEN v
    ELSE addTrackers(ValuesAdd(v, "tr", Head(trckrs)), Tail(trckrs))

\* Magnet adding the given trackers to the defaults instead of replacing them
MagnetMerged(t, trackers, defaults) ==
    [out |-> <<"magnet", ":", "?", "xt", "=", "urn", ":", "btih", ":">> \o t.Hash \o <<"&">>
             \o Encode(addTrackers(ValuesSet(EmptyValues, "dn", t.movieName),
                                   defaults \o trackers)),
     t |-> t, defaults |-> defaults]

\* (*Torrent).Magnet: the string returned, and the torrent and the default
\* list as the call leaves them
Magnet(t, trackers, defaults) ==
    LET v == ValuesSet(EmptyValues, "dn", t.movieName)
        trckrs == IF Len(trackers) > 0 THEN trackers ELSE defaults
        v2 == addTrackers(v, trckrs)
    IN
    [out |-> <<"magnet", ":", "?", "xt", "=", "urn", ":", "btih", ":">> \o t.Hash
             \o <<"&">> \o Encode(v2),
     t |-> t, defaults |-> defaults]

\* json.Unmarshal(data, m) with m a fresh *Movie, as TestUnMarshalMovie does.
\* On an error the value left in m is not modelled (Nil stands for it).
UnmarshalMovie(data) ==
    IF ~data.wf THEN Ret(Nil, decodeError)
    ELSE IF MovieUnmarshalJSON(data.j).res = "panic" THEN Panic(Nil)
    ELSE IF MovieUnmarshalJSON(data.j).res = "err" THEN Ret(Nil, decodeError)
    ELSE Ret(MovieUnmarshalJSON(data.j).m, NoErr)

---------------------------------------------------------------------------
(* The command line program (package main).  What it prints is kept as the *)
(* sequence of the things printed: "usage" for the usage text, and for a   *)
(* movie its title (movieStr also prints the year and the torrents).       *)

\* the digits of a decimal literal read from the left
RECURSIVE atoiDigits(_)
atoiDigits(d) ==
    IF d = <<>> THEN 0
    ELSE 10 * atoiDigits(SubSeq(d, 1, Len(d) - 1))
         + (CHOOSE n \in 0..9 :
                <<"0", "1", "2", "3", "4", "5", "6", "7", "8", "9">>[n + 1] = d[Len(d)])

\* strconv.Atoi: an optional sign and at least one digit, or an error
Atoi(s) ==
    LET d == IF s # <<>> /\ s[1] \in {"-", "+"} THEN Tail(s) ELSE s IN
    IF d = <<>> \/ \E k \in 1..Len(d) :
                     d[k] \notin {"0", "1", "2", "3", "4", "5", "6", "7", "8", "9"}
    THEN [err |-> TRUE, v |-> 0]
    ELSE [err |-> FALSE, v |-> IF s[1] = "-" THEN 0 - atoiDigits(d) ELSE atoiDigits(d)]

\* how a run of the program ends: what it printed, the message of
\* log.Fatalf if it ended so, whether it panicked, and the round trips made
Exit(stdout, fatal, panicked, trips) ==
    [val |-> stdout, err |-> NoErr, panicked |-> panicked,
     fatal |-> fatal # <<>>, msg |-> fatal, trips |-> trips]

\* case "movie", after c.Movie(id) (part_000 34-38): movieStr reads m.Title
mainMovie(o) ==
    IF o.ret.panicked THEN Exit(<<>>, <<>>, TRUE, o.trips)
    ELSE IF o.ret.err # NoErr THEN Exit(<<>>, <<"Failed to fetch movie">>, FALSE, o.trips)
    ELSE IF IsNil(o.ret.val) THEN Exit(<<>>, <<>>, TRUE, o.trips)
    ELSE Exit(<<o.ret.val.Title>>, <<>>, FALSE, o.trips)

\* the loop over mvs.Movies (part_000 44-46): the titles printed, up to the
\* first nil *Movie, which movieStr dereferences
mainListLoop(items, trips) ==
    LET nils == {k \in 1..Len(items) : IsNil(items[k])}
        n == IF nils = {} THEN Len(items)
             ELSE (CHOOSE k \in nils : \A j \in nils : k <= j) - 1
    IN Exit([k \in 1..n |-> items[k].Title], <<>>, nils # {}, trips)

\* case "list", after c.ListMovies(...) (part_000 40-46): mvs.Movies reads mvs
mainList(o) ==
    IF o.ret.panicked THEN Exit(<<>>, <<>>, TRUE, o.trips)
    ELSE IF o.ret.err # NoErr THEN Exit(<<>>, <<"Failed to search movies">>, FALSE, o.trips)
    ELSE IF IsNil(o.ret.val) THEN Exit(<<>>, <<>>, TRUE, o.trips)
    ELSE IF IsNil(o.ret.val.Movies) THEN Exit(<<>>, <<>>, FALSE, o.trips)
    ELSE mainListLoop(o.ret.val.Movies.items, o.trips)

\* main, once the client is made (part_000 24-52)
mainCommand(cl, argv, net) ==
    IF Len(argv) # 2 THEN Exit(<<"usage">>, <<>>, FALSE, 0)
    ELSE CASE argv[1] = <<"movie">> ->
                IF Atoi(argv[2]).err
                THEN Exit(<<>>, <<"Failed to parse movie ID">>, FALSE, 0)
                ELSE mainMovie(MovieCall(cl, Atoi(argv[2]).v, <<>>, net))
           [] argv[1] = <<"list">> ->
                mainList(ListMoviesCall(cl, <<[opt |-> "LMSearch", s |-> argv[2]]>>, net))
           [] OTHER -> Exit(<<"usage">>, <<>>, FALSE, 0)

\* main looking at the arguments before it makes the client
mainUsageFirst(ytsURL, argv, net) ==
    IF Len(argv) # 2 \/ argv[1] \notin {<<"movie">>, <<"list">>}
    THEN Exit(<<"usage">>, <<>>, FALSE, 0)
    ELSE IF NewResult(<<[opt |-> "BaseURL", url |-> ytsURL]>>).err # NoErr
    THEN Exit(<<>>, <<"Failed to create ytsgo client">>, FALSE, 0)
    ELSE mainCommand(NewResult(<<[opt |-> "BaseURL", url |-> ytsURL]>>).c, argv, net)

\* main (part_000 18-52): ytsURL is the value of -yts_url, argv the
\* arguments after the flags
main(ytsURL, argv, net) ==
    IF NewResult(<<[opt |-> "BaseURL", url |-> ytsURL]>>).err # NoErr
    THEN Exit(<<>>, <<"Failed to create ytsgo client">>, FALSE, 0)
    ELSE mainCommand(NewResult(<<[opt |-> "BaseURL", url |-> ytsURL]>>).c, argv, net)

---------------------------------------------------------------------------
(* The inputs the callers and the server draw from                         *)

TestServerURL == <<"http", ":", "/", "/", "127.0.0.1", ":", "8080">>
\* no trailing slash, a dot segment and a query of its own
QueryBaseURL == <<"http", ":", "/", "/", "h", "/", "a", "/", "..", "/", "v2", "?", "k", "=", "v">>
RelativeBaseURL == <<"/", "api", "/">>
BadURL == <<":">>

\* the options a caller passes to New: base URLs that parse and that do not
\* (no scheme before the colon, a colon in the first segment, a port that
\* is no number), timeouts, user agents
ClientOptions ==
    {[opt |-> "BaseURL", url |-> s] :
        s \in {TestServerURL, QueryBaseURL, RelativeBaseURL, BadURL,
                <<"1http", ":", "/", "/", "h">>, <<"http", ":", "/", "/", "h", ":", "api">>}}
    \cup {[opt |-> "HTTPTimeout", d |-> d] : d \in {5, 30}}
    \cup {[opt |-> "UserAgent", ua |-> ua] : ua \in {<<"test">>, <<>>}}

\* the option lists of the clients that make lookups: the README's and the
\* CLI's default client, the tests' client, and two more base URLs
LookupConfigs ==
    { <<>>,
      <<[opt |-> "BaseURL", url |-> TestServerURL], [opt |-> "HTTPTimeout", d |-> 5],
        [opt |-> "UserAgent", ua |-> <<"test">>]>>,
      <<[opt |-> "BaseURL", url |-> QueryBaseURL]>>,
      <<[opt |-> "BaseURL", url |-> RelativeBaseURL]>> }

MovieIDs == {-3, 10}

\* the option lists passed to ListMovies: every short list of options, and
\* every numeric option alone with every argument up to MaxUint
ListMoviesOptionLists ==
    BoundedSeq({[opt |-> o, n |-> 12] : o \in {"LMLimit", "LMPage", "LMMinimumRating"}}
               \cup {[opt |-> "LMSearch", s |-> s] : s \in {<<"some", " ", "title">>, <<>>}}
               \cup {[opt |-> o, s |-> <<"x">>] :
                       o \in {"LMQuality", "LMGenre", "LMSortBy", "LMOrderBy"}},
               MaxLMOpts)
    \cup {<<[opt |-> o, n |-> n]>> : o \in {"LMLimit", "LMPage", "LMMinimumRating"},
                                     n \in 0..MaxUint}

GoodURL == <<"https", ":", "/", "/", "yts.lt", "/", "13-2010">>

TorrentJSON(hash, url, unix) ==
    JObj([hash |-> hash, url |-> url, date_uploaded_unix |-> unix])
CastJSON(name, url) == JObj([name |-> name, url_small_image |-> url])
MovieJSON(title, urlsraw, unix, torrents, cast) ==
    JObj([title |-> title, urls |-> urlsraw, date_uploaded_unix |-> unix,
          torrents |-> torrents, cast |-> cast])

GoodTorrent == TorrentJSON(JStr(<<"BE046ED2">>), JStr(GoodURL), JNum(1446320797, FALSE))
BadURLTorrent == TorrentJSON(JStr(<<"HASH123">>), JStr(BadURL), JNum(1446320797, FALSE))

GoodCast == CastJSON(JStr(<<"Jason", " ", "Statham">>), JStr(GoodURL))
BadCast == CastJSON(JStr(<<"Jason", " ", "Statham">>), JStr(BadURL))

AllGoodURLs == [i \in 1..6 |-> JStr(GoodURL)]

\* what json.Unmarshal is handed directly: malformed text, null, a string,
\* and movie documents whose "torrents" is missing, null, or an array of
\* torrents, good ones, ones that fail conversion (a bad URL, a fractional
\* timestamp) and null entries
DirectInputs ==
    {[wf |-> FALSE], [wf |-> TRUE, j |-> JNull], [wf |-> TRUE, j |-> JStr(<<"x">>)]}
    \cup {[wf |-> TRUE, j |-> MovieJSON(t, u, d, tr, ca)] :
            t \in {JAbsent, JStr(<<"13">>), JStr(<<"The", " ", "Matrix">>)},
            u \in {[i \in 1..6 |-> JAbsent], AllGoodURLs,
                   [AllGoodURLs EXCEPT ![6] = JStr(BadURL)]},
            d \in {JNum(1446320797, FALSE), JNum(232, TRUE)},
            tr \in {JAbsent, JNull}
                   \cup {JArr(x) :
                           x \in BoundedSeq({JNull, GoodTorrent, BadURLTorrent,
                                             TorrentJSON(JStr(<<"HASH123">>), JStr(GoodURL),
                                                         JNum(232, TRUE))}, MaxTorrents)},
            ca \in {JAbsent, JArr(<<GoodCast, JNull>>), JArr(<<GoodCast, BadCast>>)}}

\* the movies the fake server answers with
Matrix == MovieJSON(JStr(<<"The", " ", "Matrix">>), AllGoodURLs, JNum(1446320797, FALSE),
                    JArr(<<GoodTorrent, TorrentJSON(JStr(<<"HASH123">>), JAbsent, JAbsent)>>),
                    JArr(<<GoodCast>>))
Movie13 == MovieJSON(JStr(<<"13">>), AllGoodURLs, JNum(1446320797, FALSE), JArr(<<GoodTorrent>>), JAbsent)
BadURLMovie == MovieJSON(JStr(<<"13">>), [AllGoodURLs EXCEPT ![2] = JStr(BadURL)], JNum(1446320797, FALSE),
                         JArr(<<GoodTorrent>>), JAbsent)
NullTorrentMovie == MovieJSON(JStr(<<"13">>), AllGoodURLs, JNum(1446320797, FALSE),
                              JArr(<<GoodTorrent, JNull>>), JAbsent)

Envelope(status, msg, data) ==
    [wf |-> TRUE, status |-> status, status_message |-> msg, data |-> data]
Malformed == [wf |-> FALSE]

OkStatus == <<JStr(<<"ok">>), JStr(<<"Query", " ", "was", " ", "successful">>)>>
ErrorStatus == <<JStr(<<"error">>), JStr(<<"Invalid", " ", "movie">>)>>

ListData(count, movies) ==
    JObj([movie_count |-> count, limit |-> JNum(20, FALSE), page_number |-> JNum(1, FALSE),
          movies |-> movies])

\* what the network gives a call: a failure, a 200 with any body, an error
\* status with a body of each kind; and each of them at once, after one
\* redirect or after as many redirects as the client follows, with the
\* client's timeout expiring while the body is read or not
Net(bodies, okdata) ==
    {[fail |-> TRUE, redirects |-> n] : n \in {0, 1, MaxRedirects}}
    \cup {[fail |-> FALSE, redirects |-> 0, timeout |-> FALSE, StatusCode |-> 200, Body |-> b] :
            b \in bodies}
    \cup {[fail |-> FALSE, redirects |-> 0, timeout |-> FALSE, StatusCode |-> code, Body |-> b] :
            code \in {404, 500},
            b \in {Malformed, Envelope(OkStatus[1], OkStatus[2], okdata),
                   Envelope(ErrorStatus[1], ErrorStatus[2], JAbsent)}}
    \cup {[fail |-> FALSE, redirects |-> n, timeout |-> FALSE, StatusCode |-> code,
           Body |-> Envelope(OkStatus[1], OkStatus[2], okdata)] :
            n \in {1, MaxRedirects - 1}, code \in {200, 404}}
    \cup {[fail |-> FALSE, redirects |-> n, timeout |-> TRUE, StatusCode |-> code,
           Body |-> Envelope(OkStatus[1], OkStatus[2], okdata)] :
            n \in {0, 1}, code \in {200, 404}}

\* Movie is answered with "data" missing, null, of a wrong type, or an
\* object with "movie" missing, null, a good movie, or one that fails
\* conversion (a bad image URL, a fractional timestamp, a torrent or a cast
\* entry with a bad URL) or holds a null torrent
MovieNet ==
    Net({Malformed}
        \cup {Envelope(p[1], p[2], d) :
                p \in {OkStatus, ErrorStatus, <<JAbsent, JAbsent>>},
                d \in {JAbsent, JNull, JStr(<<"x">>)}
                      \cup {JObj([movie |-> m]) :
                              m \in {JAbsent, JNull, Matrix, Movie13, BadURLMovie,
                                     NullTorrentMovie,
                                     MovieJSON(JStr(<<"13">>), AllGoodURLs, JNum(232, TRUE),
                                               JArr(<<GoodTorrent>>), JAbsent),
                                     MovieJSON(JStr(<<"13">>), AllGoodURLs, JNum(1446320797, FALSE),
                                               JArr(<<BadURLTorrent>>), JAbsent),
                                     MovieJSON(JStr(<<"13">>), AllGoodURLs, JNum(1446320797, FALSE),
                                               JAbsent, JArr(<<BadCast>>))}}},
        JObj([movie |-> Matrix]))

\* ListMovies is answered with the list fixtures
ListMoviesNet ==
    Net({Malformed}
        \cup {Envelope(p[1], p[2], d) :
                p \in {OkStatus, ErrorStatus},
                d \in {JAbsent, JNull, ListData(JNum(2, TRUE), JArr(<<Matrix>>)),
                       ListData(JNum(2, FALSE), JArr(<<Matrix, Movie13>>)),
                       ListData(JNum(1, FALSE), JArr(<<BadURLMovie>>))}},
        ListData(JNum(1, FALSE), JArr(<<Matrix>>)))

\* Suggestions is answered with "data" missing, null, of a wrong type, with
\* a fractional count, without "movies", or with every short array of
\* movies and null entries
SuggestionsNet ==
    Net({Malformed}
        \cup {Envelope(p[1], p[2], d) :
                p \in {OkStatus, ErrorStatus, <<JAbsent, JAbsent>>},
                d \in {JAbsent, JNull, JStr(<<"x">>),
                       ListData(JNum(2, TRUE), JArr(<<Matrix>>)),
                       ListData(JNum(2, FALSE), JAbsent)}
                      \cup {ListData(JNum(2, FALSE), JArr(x)) :
                              x \in BoundedSeq({Matrix, Movie13, BadURLMovie,
                                                NullTorrentMovie, JNull}, MaxMovies)}},
        ListData(JNum(1, FALSE), JArr(<<Matrix>>)))

\* the command lines the program is run with: the values of -yts_url, and
\* the arguments after the flags (none, one, a command, a command with a
\* bad id, an unknown command, three)
CommandLines ==
    {[ytsURL |-> u, argv |-> a] :
        u \in {DefaultBaseURL, TestServerURL, BadURL},
        a \in {<<>>, << <<"movie">> >>, << <<"movie">>, <<"1", "0">> >>,
               << <<"movie">>, <<"-", "3">> >>, << <<"movie">>, <<"abc">> >>,
               << <<"list">>, <<"some", " ", "title">> >>, << <<"help">>, <<"1", "0">> >>,
               << <<"movie">>, <<"1", "0">>, <<"x">> >>}}

---------------------------------------------------------------------------
(* The state machine.  A run is one of five callers: one that constructs a *)
(* client from a list of options (New); one that holds a constructed       *)
(* client and makes lookups on it, one after the other; one that asks a    *)
(* torrent for its magnet link; one that decodes a movie document; and the *)
(* command line program run once.                                          *)

NoArgs == [none |-> TRUE]

InitCommon ==
    /\ op = "none"
    /\ req = Nil
    /\ rsp = Nil
    /\ ret = Ret(NoArgs, NoErr)
    /\ roundTrips = 0
    /\ calls = [i \in 1..NumCallers |-> [pc |-> "idle"]]
    /\ DefaultTackers = DefaultTackersInit

\* a caller about to construct a client, one holding a constructed client,
\* one about to ask a torrent for its magnet link, one about to decode a
\* movie document
Init ==
    /\ InitCommon
    /\ \/ /\ pc = "new" /\ c = Nil
          /\ \E opts \in BoundedSeq(ClientOptions, MaxOpts) : args = [opts |-> opts]
       \/ /\ pc = "idle" /\ args = NoArgs
          /\ \E opts \in LookupConfigs : c = NewResult(opts).c
       \* Magnet is asked of torrents with and without a hash, with the test's
       \* title, a title with characters to escape, and none; the trackers
       \* passed are the test's two and one of the defaults
       \/ /\ pc = "magnet" /\ c = Nil
          /\ \E h \in {<<"HASH123">>, <<>>},
                n \in {<<"Name", " ", "of", " ", "cool", " ", "movie">>,
                       <<"a", "&", "b", "=", "c">>, <<>>},
                trackers \in BoundedSeq({<<"udp", ":", "/", "/", "tracker1.com", ":", "1234">>,
                                         <<"http", ":", "/", "/", "tracker2.com", ":", "5678">>,
                                         DefaultTackersInit[2]}, MaxTrackers) :
                  args = [t |-> [URL |-> Nil, Hash |-> h, DateUploaded |-> parseTime(0),
                                 DateUploadedUnix |-> 0, movieName |-> n],
                          trackers |-> trackers]
       \/ /\ pc = "unmarshal" /\ c = Nil
          /\ \E data \in DirectInputs : args = [data |-> data]
       \/ /\ pc = "main" /\ c = Nil
          /\ args \in CommandLines

\* the call returns: the variables take what it left behind
Returns(r) ==
    c' = r.c /\ req' = r.req /\ rsp' = r.rsp /\ roundTrips' = r.trips /\ ret' = r.ret

\* c, err := New(opts...)
New ==
    /\ pc = "new"
    /\ \E r \in {NewResult(args.opts)} : ret' = Ret(r.c, r.err)
    /\ pc' = "returned" /\ op' = "New"
    /\ UNCHANGED <<c, args, req, rsp, roundTrips, calls, DefaultTackers>>

\* m, err := c.Movie(id, opts...)
Movie ==
    /\ pc = "idle" /\ ~IsNil(c)
    /\ \E id \in MovieIDs,
          opts \in BoundedSeq({[opt |-> o, b |-> b] :
                                 o \in {"MovieWithImages", "MovieWithCast"}, b \in BOOLEAN},
                              MaxMovieOpts),
          net \in MovieNet :
        /\ Returns(MovieCall(c, id, opts, net))
        /\ args' = [id |-> id, opts |-> opts]
    /\ pc' = "returned" /\ op' = "Movie"
    /\ UNCHANGED <<calls, DefaultTackers>>

\* mvs, err := c.ListMovies(opts...)
ListMovies ==
    /\ pc = "idle" /\ ~IsNil(c)
    /\ \E opts \in ListMoviesOptionLists, net \in ListMoviesNet :
        /\ Returns(ListMoviesCall(c, opts, net))
        /\ args' = [opts |-> opts]
    /\ pc' = "returned" /\ op' = "ListMovies"
    /\ UNCHANGED <<calls, DefaultTackers>>

\* mvs, err := c.Suggestions(id)
Suggestions ==
    /\ pc = "idle" /\ ~IsNil(c)
    /\ \E id \in MovieIDs, net \in SuggestionsNet :
        /\ Returns(SuggestionsCall(c, id, net))
        /\ args' = [id |-> id]
    /\ pc' = "returned" /\ op' = "Suggestions"
    /\ UNCHANGED <<calls, DefaultTackers>>

\* s := t.Magnet(trackers...)
MagnetAct ==
    /\ pc = "magnet"
    /\ \E r \in {Magnet(args.t, args.trackers, DefaultTackers)} :
            \* the string, the torrent and the default list as the call left them
            /\ ret' = [val |-> r.out, err |-> NoErr, panicked |-> FALSE, t |-> r.t]
            /\ DefaultTackers' = r.defaults
    /\ pc' = "returned" /\ op' = "Magnet"
    /\ UNCHANGED <<c, args, req, rsp, roundTrips, calls>>

\* err := json.Unmarshal(data, &Movie{})
Unmarshal ==
    /\ pc = "unmarshal"
    /\ ret' = UnmarshalMovie(args.data)
    /\ pc' = "returned" /\ op' = "Unmarshal"
    /\ UNCHANGED <<c, args, req, rsp, roundTrips, calls, DefaultTackers>>

\* the program runs: flag.Parse() has set ytsURL and left argv
Main ==
    /\ pc = "main"
    /\ \E net \in IF args.argv # <<>> /\ args.argv[1] = <<"list">> THEN ListMoviesNet
                   ELSE MovieNet :
        \E r \in {main(args.ytsURL, args.argv, net)} :
            ret' = r /\ roundTrips' = r.trips
    /\ pc' = "returned" /\ op' = "main"
    /\ UNCHANGED <<c, args, req, rsp, calls, DefaultTackers>>

\* the caller is done with what the call returned and goes on
Continue ==
    /\ pc = "returned"
    /\ pc' = "idle" /\ op' = "none" /\ args' = NoArgs
    /\ req' = Nil /\ rsp' = Nil /\ ret' = Ret(NoArgs, NoErr) /\ roundTrips' = 0
    /\ UNCHANGED <<c, calls, DefaultTackers>>

Next ==
    New \/ Movie \/ ListMovies \/ Suggestions \/ MagnetAct \/ Unmarshal \/ Main \/ Continue

Spec == Init /\ [][Next]_vars

---------------------------------------------------------------------------
(* Lookups made in parallel on one client.  Each caller runs its lookup in *)
(* steps that interleave with the other callers': it resolves the endpoint *)
(* (the first statement of the lookup, which reads the client), builds the *)
(* request (which writes the query into the URL it resolved and reads the  *)
(* client's user agent), sends it and decodes the answer.  A *url.URL is a *)
(* pointer: u.own says that it points to a URL of the call's own, u.v; a   *)
(* pointer that is not the call's own points to c.urls[u.key].             *)

\* the lookups the callers make
ParallelCalls ==
    {[op |-> "Movie", id |-> id, opts |-> opts] :
        id \in MovieIDs, opts \in {<<>>, <<[opt |-> "MovieWithImages", b |-> TRUE]>>}}
    \cup {[op |-> "ListMovies", opts |-> opts] :
            opts \in {<<>>, <<[opt |-> "LMSearch", s |-> <<"some", " ", "title">>]>>}}
    \cup {[op |-> "Suggestions", id |-> id] : id \in MovieIDs}

\* a lookup that takes the client's endpoint URL as it is, without resolving
\* it into a URL of its own
resolveInPlace(cl, key) == [own |-> FALSE, key |-> key]

\* u := c.baseURL.ResolveReference(c.urls[key]): a new URL
resolve(cl, key) ==
    [own |-> TRUE, key |-> key, v |-> ResolveReference(cl.baseURL, cl.urls[key])]

\* the statements of a lookup from u.Query() to c.newRequest(u, params), on
\* the URL u points to
buildRequest(cl, call, u) ==
    CASE call.op = "Movie" -> movieRequest(cl, u, call.id, call.opts)
      [] call.op = "ListMovies" -> listMoviesRequest(cl, u, call.opts)
      [] call.op = "Suggestions" -> suggestionsRequest(cl, u, call.id)

\* the rest of a lookup: the request is sent and the answer decoded
sendRequest(cl, call, nr, net) ==
    CASE call.op = "Movie" -> movieSend(cl, nr, net)
      [] call.op = "ListMovies" -> listMoviesSend(cl, nr, net)
      [] call.op = "Suggestions" -> suggestionsSend(cl, nr, net)

InitShared ==
    /\ InitCommon
    /\ pc = "parallel" /\ args = NoArgs
    /\ \E opts \in LookupConfigs : c = NewResult(opts).c

\* caller i calls a lookup, which resolves its endpoint
CallResolve(i) ==
    /\ calls[i].pc = "idle"
    /\ \E call \in ParallelCalls :
            calls' = [calls EXCEPT ![i] =
                        [pc |-> "resolved", call |-> call,
                         u |-> resolve(c, [Movie |-> "movieURL", ListMovies |-> "listMoviesURL",
                                           Suggestions |-> "suggestionsURL"][call.op])]]
    /\ UNCHANGED <<c, pc, op, args, req, rsp, ret, roundTrips, DefaultTackers>>

\* the lookup of caller i builds its request: newRequest writes the encoded
\* query into the URL u points to
CallRequest(i) ==
    /\ calls[i].pc = "resolved"
    /\ \E nr \in {buildRequest(c, calls[i].call,
                                IF calls[i].u.own THEN calls[i].u.v
                                ELSE c.urls[calls[i].u.key])} :
            /\ calls' = [calls EXCEPT ![i] =
                            [pc |-> "built", call |-> calls[i].call, nr |-> nr]]
            /\ c' = IF calls[i].u.own \/ IsNil(nr.req) THEN c
                    ELSE [c EXCEPT !.urls[calls[i].u.key].RawQuery = nr.req.URL.RawQuery]
    /\ UNCHANGED <<pc, op, args, req, rsp, ret, roundTrips, DefaultTackers>>

\* the lookup of caller i sends its request and returns
CallSend(i) ==
    /\ calls[i].pc = "built"
    /\ \E net \in {n \in MovieNet : n.redirects = 0 /\ (n.fail \/ n.StatusCode = 500)} :
            calls' = [calls EXCEPT ![i] =
                        [pc |-> "returned", call |-> calls[i].call, nr |-> calls[i].nr,
                         ret |-> sendRequest(c, calls[i].call, calls[i].nr, net).ret]]
    /\ UNCHANGED <<c, pc, op, args, req, rsp, ret, roundTrips, DefaultTackers>>

\* caller i is done with what its lookup returned
CallDone(i) ==
    /\ calls[i].pc = "returned"
    /\ calls' = [calls EXCEPT ![i] = [pc |-> "idle"]]
    /\ UNCHANGED <<c, pc, op, args, req, rsp, ret, roundTrips, DefaultTackers>>

NextShared ==
    \E i \in 1..NumCallers : CallResolve(i) \/ CallRequest(i) \/ CallSend(i) \/ CallDone(i)

SpecShared == InitShared /\ [][NextShared]_vars

---------------------------------------------------------------------------
(* Properties.  They are stated on what a call leaves behind: its          *)
(* arguments (args), the request (req), the response (rsp) and what it     *)
(* returned (ret).                                                         *)

Lookups == {"Movie", "ListMovies", "Suggestions"}

\* a lookup has returned (or panicked)
LookupReturned == pc = "returned" /\ op \in Lookups
\* ... after building its request
RequestBuilt == LookupReturned /\ ~IsNil(req)
\* ... after receiving a response
Answered == LookupReturned /\ ~IsNil(rsp)

\* the status and the message of an envelope as the server wrote them
StatusOf(body) == IF body.status.k = "str" THEN body.status.s ELSE <<>>
MessageOf(body) == IF body.status_message.k = "str" THEN body.status_message.s ELSE <<>>

\* how json.Decode of the body received ends for the lookup that received it
DecodeOutcome ==
    CASE op = "Movie" -> decodeMovieDetails(rsp.Body).res
      [] op = "ListMovies" -> decodeListMovies(rsp.Body).res
      [] op = "Suggestions" -> decodeSuggestions(rsp.Body).res

\* the call returned no result and this error
ReturnedError(e) == ~ret.panicked /\ IsNil(ret.val) /\ ret.err = e

\* a 200 response with a well-formed envelope whose status is not "ok"
NotOkEnvelope ==
    Answered /\ rsp.StatusCode = 200 /\ rsp.Body.wf /\ StatusOf(rsp.Body) # statusOK

ApiErrorReturned == ReturnedError(Err("api", StatusOf(rsp.Body), MessageOf(rsp.Body)))

\* C1 as stated: whenever the response is 200 and its body is a well-formed
\* envelope whose status is not "ok", the lookup returns the API error with
\* the upstream status and message, whatever the data payload is.
C1_ApiErrorWhateverData == NotOkEnvelope => ApiErrorReturned

\* C1, amended: on a 200 response with a well-formed envelope whose status is
\* not "ok", the lookup returns the API error with the upstream status and
\* message exactly when the whole body, data included, decodes without error;
\* when the decoding fails it returns the decode error and when the decoding
\* panics (a null torrent entry) it returns nothing.
C1_ApiErrorWhenBodyDecodes ==
    NotOkEnvelope =>
        CASE DecodeOutcome = "ok" -> ApiErrorReturned
          [] DecodeOutcome = "err" -> ReturnedError(decodeError)
          [] DecodeOutcome = "panic" -> ret.panicked

\* a not-"ok" envelope with a clean payload was answered with the API error
C1_Witness ==
    /\ NotOkEnvelope /\ ApiErrorReturned
    /\ ret.err.a = <<"error">> /\ ret.err.b = <<"Invalid", " ", "movie">>
    /\ rsp.Body.data.k = "obj"

\* C2: when the response is 200 and the body is malformed JSON, each lookup
\* returns the decode error and a nil result.
C2_MalformedBodyDecodeError ==
    (Answered /\ rsp.StatusCode = 200 /\ ~rsp.Body.wf) => ReturnedError(decodeError)

C2_Witness ==
    /\ Answered /\ op = "Suggestions" /\ rsp.StatusCode = 200 /\ ~rsp.Body.wf
    /\ ret.err.kind = "decode" /\ ret.val = Nil

\* the error kind the first failing check gives, in the order transport,
\* HTTP status, decode, API status
FirstFailing ==
    IF IsNil(req) \/ IsNil(rsp) THEN "transport"
    ELSE IF rsp.StatusCode # 200 THEN "http"
    ELSE IF rsp.timedOut THEN "transport"
    ELSE IF ~rsp.Body.wf \/ DecodeOutcome # "ok" THEN "decode"
    ELSE IF StatusOf(rsp.Body) # statusOK THEN "api"
    ELSE "none"

\* C3: when the response code is not 200 each lookup returns the HTTP-status
\* error (with the code and the status text) and a nil result whatever the
\* body is; and the error a lookup returns is the one of the first failing
\* check in the order transport, HTTP status, decode, API status.  A lookup
\* that panics does so in the decoding, after the first two checks.
C3_ErrorOrder ==
    LookupReturned =>
        /\ (~IsNil(rsp) /\ rsp.StatusCode # 200) =>
                ReturnedError(Err("http", FormatInt(rsp.StatusCode), rsp.Status))
        /\ ~ret.panicked => ret.err.kind = FirstFailing
        /\ (~ret.panicked /\ ret.err.kind # "none") => IsNil(ret.val)
        /\ ret.panicked => (~IsNil(rsp) /\ rsp.StatusCode = 200 /\ rsp.Body.wf)

\* a 404 carrying a valid "ok" envelope was answered with the HTTP error
C3_Witness ==
    /\ Answered /\ rsp.StatusCode = 404
    /\ rsp.Body.wf /\ StatusOf(rsp.Body) = statusOK /\ rsp.Body.data.k = "obj"
    /\ ret.err.kind = "http" /\ IsNil(ret.val)

\* an independent reading of a decimal literal
DigitValue(t) ==
    CASE t = "0" -> 0 [] t = "1" -> 1 [] t = "2" -> 2 [] t = "3" -> 3 [] t = "4" -> 4
      [] t = "5" -> 5 [] t = "6" -> 6 [] t = "7" -> 7 [] t = "8" -> 8 [] t = "9" -> 9

IsDecimal(s) ==
    LET d == IF s # <<>> /\ s[1] = "-" THEN Tail(s) ELSE s IN
    /\ d # <<>>
    /\ \A k \in 1..Len(d) : d[k] \in {"0", "1", "2", "3", "4", "5", "6", "7", "8", "9"}
    /\ Len(d) > 1 => d[1] # "0"

RECURSIVE DecimalValue(_)
DecimalValue(s) ==
    IF s[1] = "-" THEN 0 - DecimalValue(Tail(s))
    ELSE IF Len(s) = 1 THEN DigitValue(s[1])
    ELSE 10 * DecimalValue(SubSeq(s, 1, Len(s) - 1)) + DigitValue(s[Len(s)])

\* the query of the request as the server reads it (r.URL.Query())
RequestQuery == ParseQuery(req.URL.RawQuery)

\* the positions of the options named o in the list opts
Positions(opts, o) == {k \in 1..Len(opts) : opts[k].opt = o}
Max(S) == CHOOSE x \in S : \A y \in S : y <= x
Min2(a, b) == IF a < b THEN a ELSE b
\* the last option named o in opts
LastOption(opts, o) == opts[Max(Positions(opts, o))]

\* the parameter key has the single value that reads as the number n
HasNumber(q, key, n) ==
    /\ key \in DOMAIN q
    /\ Len(q[key]) = 1
    /\ IsDecimal(q[key][1])
    /\ DecimalValue(q[key][1]) = n

\* C4: LMLimit(x) sets limit to min(x, 50) and LMMinimumRating(x) sets
\* minimum_rating to min(x, 9), for every x from 0 on.
C4_Clamp ==
    (RequestBuilt /\ op = "ListMovies") =>
        /\ Positions(args.opts, "LMLimit") # {} =>
                HasNumber(RequestQuery, "limit",
                          Min2(LastOption(args.opts, "LMLimit").n, 50))
        /\ Positions(args.opts, "LMMinimumRating") # {} =>
                HasNumber(RequestQuery, "minimum_rating",
                          Min2(LastOption(args.opts, "LMMinimumRating").n, 9))

\* LMLimit(51) was clamped
C4_Witness ==
    /\ RequestBuilt /\ op = "ListMovies"
    /\ args.opts = <<[opt |-> "LMLimit", n |-> 51]>>
    /\ RequestQuery = [k \in {"limit"} |-> << <<"5", "0">> >>]

\* the query parameter of each ListMovies option
ParamOf ==
    [LMLimit |-> "limit", LMPage |-> "page", LMQuality |-> "quality",
     LMMinimumRating |-> "minimum_rating", LMSearch |-> "query_term", LMGenre |-> "genre",
     LMSortBy |-> "sort_by", LMOrderBy |-> "order_by"]

\* the value of the parameter is the one the option o asks for
CarriesValue(q, o) ==
    CASE o.opt = "LMLimit" -> HasNumber(q, "limit", Min2(o.n, 50))
      [] o.opt = "LMMinimumRating" -> HasNumber(q, "minimum_rating", Min2(o.n, 9))
      [] o.opt = "LMPage" -> HasNumber(q, "page", o.n)
      [] OTHER -> q[ParamOf[o.opt]] = <<o.s>>

\* C5: the query of the request ListMovies builds has a parameter if and
\* only if the corresponding option was passed; it is empty with no option;
\* a parameter appears once, with the value of the last option that sets it.
C5_ParamsIffOptions ==
    (RequestBuilt /\ op = "ListMovies") =>
        /\ DOMAIN RequestQuery =
                {ParamOf[args.opts[k].opt] : k \in 1..Len(args.opts)}
        /\ args.opts = <<>> => req.URL.RawQuery = <<>> /\ ~req.URL.ForceQuery
        /\ \A o \in DOMAIN ParamOf :
                Positions(args.opts, o) # {} =>
                    /\ Len(RequestQuery[ParamOf[o]]) = 1
                    /\ CarriesValue(RequestQuery, LastOption(args.opts, o))
                    /\ Count(req.URL.RawQuery, ParamOf[o]) = 1

\* LMSearch passed twice with different terms: the last one is sent
C5_Witness ==
    /\ RequestBuilt /\ op = "ListMovies"
    /\ Len(args.opts) = 2
    /\ args.opts[1] = [opt |-> "LMSearch", s |-> <<"some", " ", "title">>]
    /\ args.opts[2] = [opt |-> "LMSearch", s |-> <<>>]
    /\ RequestQuery = [k \in {"query_term"} |-> << <<>> >>]

FlagOf == [MovieWithImages |-> "with_images", MovieWithCast |-> "with_cast"]

\* the arguments of the options named o in opts, in the order passed
RECURSIVE FlagArgs(_, _)
FlagArgs(opts, o) ==
    IF opts = <<>> THEN <<>>
    ELSE (IF Head(opts).opt = o THEN <<Head(opts).b>> ELSE <<>>) \o FlagArgs(Tail(opts), o)

BoolWord(b) == IF b THEN <<"true">> ELSE <<"false">>

MovieRequestBuilt == RequestBuilt /\ op = "Movie"

MovieIdSent == HasNumber(RequestQuery, "movie_id", args.id)

\* C6 as stated: the query has movie_id set to the decimal id, and
\* with_images / with_cast only for flags that are enabled; a flag that is
\* unset or false adds nothing.
C6_OnlyEnabledFlags ==
    MovieRequestBuilt =>
        /\ MovieIdSent
        /\ DOMAIN RequestQuery \subseteq {"movie_id", "with_images", "with_cast"}
        /\ \A o \in DOMAIN FlagOf :
                /\ FlagOf[o] \in DOMAIN RequestQuery <=>
                        \E k \in 1..Len(args.opts) : args.opts[k].opt = o /\ args.opts[k].b
                /\ FlagOf[o] \in DOMAIN RequestQuery =>
                        \A k \in 1..Len(RequestQuery[FlagOf[o]]) :
                            RequestQuery[FlagOf[o]][k] = <<"true">>

\* C6, amended: the query has movie_id set to the decimal id; each
\* MovieWithImages(b) or MovieWithCast(b) passed appends with_images or
\* with_cast with the value "true" or "false" of b, in the order passed; a
\* flag for which no option is passed adds nothing; neither option changes
\* movie_id.
C6_FlagsAsPassed ==
    MovieRequestBuilt =>
        /\ MovieIdSent
        /\ DOMAIN RequestQuery \subseteq {"movie_id", "with_images", "with_cast"}
        /\ \A o \in DOMAIN FlagOf :
                LET bs == FlagArgs(args.opts, o) IN
                IF bs = <<>> THEN FlagOf[o] \notin DOMAIN RequestQuery
                ELSE /\ FlagOf[o] \in DOMAIN RequestQuery
                     /\ RequestQuery[FlagOf[o]] = [k \in 1..Len(bs) |-> BoolWord(bs[k])]

\* MovieWithCast(false) then MovieWithImages(true) were both sent
C6_Witness ==
    /\ MovieRequestBuilt /\ args.id = 10
    /\ args.opts = <<[opt |-> "MovieWithCast", b |-> FALSE],
                     [opt |-> "MovieWithImages", b |-> TRUE]>>
    /\ req.URL.RawQuery = <<"movie_id", "=", "1", "0", "&", "with_cast", "=", "false", "&",
                            "with_images", "=", "true">>

EndpointOf == [Movie |-> <<"movie_details.json">>, ListMovies |-> <<"list_movies.json">>,
               Suggestions |-> <<"movie_suggestions.json">>]

\* the path up to and including its last "/", and what follows it
DirOf(path) == SubSeq(path, 1, LastIndexOf(path, "/"))
FileOf(path) == SubSeq(path, LastIndexOf(path, "/") + 1, Len(path))

\* the directory a reference is resolved in, for each base URL of a client
\* making lookups
BaseDir(str) ==
    CASE str = DefaultBaseURL -> <<"/", "api", "/", "v2", "/">>
      [] str = TestServerURL -> <<"/">>
      [] str = QueryBaseURL -> <<"/">>
      [] str = RelativeBaseURL -> <<"/", "api", "/">>

\* C7: each lookup sends its request to its own endpoint file, resolved
\* against the base URL the client was constructed with: the scheme and the
\* host are the base URL's, the path is the endpoint in the base URL's
\* directory, and the query holds the lookup's own parameters only.
C7_OwnEndpoint ==
    RequestBuilt =>
        /\ c.baseURL = ParseURL(c.baseURLStr).u
        /\ req.Method = "GET"
        /\ req.URL.Scheme = c.baseURL.Scheme
        /\ req.URL.Host = c.baseURL.Host
        /\ FileOf(req.URL.Path) = EndpointOf[op]
        /\ DirOf(req.URL.Path) = BaseDir(c.baseURLStr)
        /\ DOMAIN RequestQuery \subseteq
                CASE op = "Movie" -> {"movie_id", "with_images", "with_cast"}
                  [] op = "ListMovies" -> {ParamOf[o] : o \in DOMAIN ParamOf}
                  [] op = "Suggestions" -> {"movie_id"}

\* Suggestions on a client whose base URL has a query and a dot segment
C7_Witness ==
    /\ Answered /\ op = "Suggestions" /\ c.baseURLStr = QueryBaseURL
    /\ c.baseURL.RawQuery = <<"k", "=", "v">>
    /\ req.URL.Path = <<"/", "movie_suggestions.json">>
    /\ req.URL.RawQuery = <<"movie_id", "=", "1", "0">>

\* the configuration the options ask for: the last option of each kind, or
\* the default
Wanted(opts) ==
    [baseURLStr |-> IF Positions(opts, "BaseURL") = {} THEN DefaultBaseURL
                    ELSE LastOption(opts, "BaseURL").url,
     timeout |-> IF Positions(opts, "HTTPTimeout") = {} THEN 10
                 ELSE LastOption(opts, "HTTPTimeout").d,
     userAgent |-> IF Positions(opts, "UserAgent") = {} THEN <<>>
                   ELSE LastOption(opts, "UserAgent").ua]

\* C8: New applies its options in order (a later one overrides an earlier
\* one) and returns either a client with its parsed base URL and its three
\* endpoints set and no error, or no client and the configuration error when
\* the base URL cannot be parsed.
C8_NewAllOrNothing ==
    (pc = "returned" /\ op = "New") =>
        LET w == Wanted(args.opts)
            p == ParseURL(w.baseURLStr)
        IN
        IF p.err = ""
        THEN /\ ret.err = NoErr
             /\ ~IsNil(ret.val)
             /\ ret.val.baseURLStr = w.baseURLStr
             /\ ret.val.timeout = w.timeout
             /\ ret.val.userAgent = w.userAgent
             /\ ret.val.baseURL = p.u
             /\ DOMAIN ret.val.urls = {"movieURL", "listMoviesURL", "suggestionsURL"}
             /\ ret.val.urls["movieURL"].Path = EndpointOf["Movie"]
             /\ ret.val.urls["listMoviesURL"].Path = EndpointOf["ListMovies"]
             /\ ret.val.urls["suggestionsURL"].Path = EndpointOf["Suggestions"]
        ELSE /\ IsNil(ret.val)
             /\ ret.err.kind = "config"

\* a base URL that parses overridden by one that does not: no client
C8_Witness ==
    /\ pc = "returned" /\ op = "New"
    /\ args.opts = <<[opt |-> "BaseURL", url |-> TestServerURL],
                     [opt |-> "BaseURL", url |-> BadURL]>>
    /\ IsNil(ret.val) /\ ret.err.kind = "config"

\* "&tr=" and the escaped tracker, for each tracker in order
RECURSIVE TrParams(_)
TrParams(trs) ==
    IF trs = <<>> THEN <<>>
    ELSE <<"&", "tr", "=">> \o QueryEscape(Head(trs)) \o TrParams(Tail(trs))

\* C9: Magnet with no trackers emits the 8 default trackers in their order,
\* Magnet with trackers emits exactly those in the order given; the result
\* is xt=urn:btih:<hash>, then dn with the movie title, then the tr
\* parameters; the torrent and the default list are left as they were.
C9_Magnet ==
    (pc = "returned" /\ op = "Magnet") =>
        /\ ret.val = <<"magnet", ":", "?", "xt", "=", "urn", ":", "btih", ":">>
                     \o args.t.Hash
                     \o <<"&", "dn", "=">> \o QueryEscape(args.t.movieName)
                     \o TrParams(IF args.trackers = <<>> THEN DefaultTackersInit
                                 ELSE args.trackers)
        /\ Len(DefaultTackersInit) = 8
        /\ ret.t = args.t
        /\ DefaultTackers = DefaultTackersInit

\* two trackers given: they are the only tr parameters
C9_Witness ==
    /\ pc = "returned" /\ op = "Magnet"
    /\ Len(args.trackers) = 2 /\ args.trackers[1] # args.trackers[2]
    /\ args.t.movieName = <<"Name", " ", "of", " ", "cool", " ", "movie">>
    /\ Count(ret.val, "tr") = 2
    /\ SubSeq(ret.val, 1, 24) =
          <<"magnet", ":", "?", "xt", "=", "urn", ":", "btih", ":", "HASH123", "&",
            "dn", "=", "Name", "+", "of", "+", "cool", "+", "movie", "&", "tr", "=", "udp">>

\* every torrent of the movie carries the movie's title
TitleCopied(m) == \A k \in 1..Len(m.Torrents) : m.Torrents[k].movieName = m.Title

\* the movies a call returned
ReturnedMovies ==
    IF ret.panicked \/ ret.err # NoErr \/ "nil" \in DOMAIN ret.val THEN {}
    ELSE CASE op \in {"Movie", "Unmarshal"} -> {ret.val}
           [] op = "ListMovies" ->
                IF IsNil(ret.val.Movies) THEN {}
                ELSE {ret.val.Movies.items[k] : k \in 1..Len(ret.val.Movies.items)}
           [] op = "Suggestions" -> {ret.val.items[k] : k \in 1..Len(ret.val.items)}
           [] OTHER -> {}

\* C10: after every successful decode of a Movie, directly or in the
\* response of a lookup, every Torrent of the Movie has its movieName equal
\* to the Movie's Title.
C10_TitleCopied ==
    (pc = "returned" /\ op \in Lookups \cup {"Unmarshal"}) =>
        \A m \in ReturnedMovies : ~IsNil(m) => TitleCopied(m)

\* a list of two movies with different titles, one of them with two torrents
C10_Witness ==
    /\ pc = "returned" /\ op = "ListMovies"
    /\ \E m1, m2 \in ReturnedMovies :
            /\ ~IsNil(m1) /\ ~IsNil(m2)
            /\ m1.Title = <<"The", " ", "Matrix">> /\ Len(m1.Torrents) = 2
            /\ m1.Torrents[2].movieName = <<"The", " ", "Matrix">>
            /\ m2.Title = <<"13">> /\ Len(m2.Torrents) = 1
            /\ m2.Torrents[1].movieName = <<"13">>

---------------------------------------------------------------------------
(* Decoding of timestamps and URLs                                         *)

\* the JSON value is a number written with a fraction
IsFractional(j) == j.k = "num" /\ j.frac

\* the JSON value is a string that url.Parse rejects
IsMalformedURL(j) == j.k = "str" /\ ParseURL(j.s).err # ""

\* the number a timestamp field holds (0 when the field is missing)
TimestampOf(j) == IF j.k = "num" THEN j.n ELSE 0

\* the objects among the entries of an array field
ObjectsIn(j) ==
    IF j.k = "arr" THEN {j.items[k] : k \in {i \in 1..Len(j.items) : j.items[i].k = "obj"}}
    ELSE {}

\* the movie document, or one of its torrents, has a fractional timestamp
HasFractionalTimestamp(m) ==
    \/ IsFractional(m.f.date_uploaded_unix)
    \/ \E t \in ObjectsIn(m.f.torrents) : IsFractional(t.f.date_uploaded_unix)

\* the movie document, one of its torrents or one of its cast entries has a
\* URL field that does not parse
HasMalformedURL(m) ==
    \/ \E i \in 1..6 : IsMalformedURL(m.f.urls[i])
    \/ \E t \in ObjectsIn(m.f.torrents) : IsMalformedURL(t.f.url)
    \/ \E x \in ObjectsIn(m.f.cast) : IsMalformedURL(x.f.url_small_image)

\* a movie document was handed to json.Unmarshal and the call is over
MovieDocumentDecoded ==
    /\ pc = "returned" /\ op = "Unmarshal"
    /\ args.data.wf /\ args.data.j.k = "obj"

\* C11: decoding a Movie (and the Torrents in it) returns an error whenever
\* a date_uploaded_unix is a fractional number or a URL field is malformed,
\* and never a value with the timestamp truncated; when decoding succeeds,
\* DateUploaded of the movie and of every torrent is time.Unix of the
\* number that was read.
C11_TimestampsAndURLs ==
    MovieDocumentDecoded =>
        LET j == args.data.j IN
        /\ (HasFractionalTimestamp(j) \/ HasMalformedURL(j)) =>
                /\ ~ret.panicked
                /\ ret.err = decodeError
                /\ IsNil(ret.val)
        /\ (~ret.panicked /\ ret.err = NoErr) =>
                /\ ret.val.DateUploadedUnix = TimestampOf(j.f.date_uploaded_unix)
                /\ ret.val.DateUploaded = [sec |-> ret.val.DateUploadedUnix, nsec |-> 0]
                /\ \A k \in 1..Len(ret.val.Torrents) :
                        /\ ret.val.Torrents[k].DateUploadedUnix =
                                TimestampOf(j.f.torrents.items[k].f.date_uploaded_unix)
                        /\ ret.val.Torrents[k].DateUploaded =
                                [sec |-> ret.val.Torrents[k].DateUploadedUnix, nsec |-> 0]

\* the "bad time" document of the test, 232.1313, with everything else
\* good: an error and no movie
C11_Witness ==
    /\ MovieDocumentDecoded
    /\ args.data.j.f.date_uploaded_unix = JNum(232, TRUE)
    /\ ~HasMalformedURL(args.data.j)
    /\ args.data.j.f.torrents = JArr(<<GoodTorrent>>)
    /\ ret = Ret(Nil, decodeError)

---------------------------------------------------------------------------
(* Round trips and the response body                                       *)

\* the request can be put on the network: it was built and its URL has a
\* scheme the transport dials and a host
Sendable ==
    /\ ~IsNil(req)
    /\ req.URL.Scheme \in {<<"http">>, <<"https">>}
    /\ req.URL.Host # <<>>

\* the client's timeout expired while the body of a 200 response was read
TimedOutReading == ~IsNil(rsp) /\ rsp.StatusCode = 200 /\ rsp.timedOut

\* the body of the response received, if any, is closed; a call that got
\* no response returned a transport error and no result; so did a call
\* whose timeout expired while it read the body
BodyClosedOrTransportError ==
    /\ ~IsNil(rsp) => rsp.closed
    /\ IsNil(rsp) => (~ret.panicked /\ IsNil(ret.val) /\ ret.err.kind = "transport")
    /\ TimedOutReading => (~ret.panicked /\ IsNil(ret.val) /\ ret.err.kind = "transport")

---------------------------------------------------------------------------
(* Lookups in parallel on one client                                       *)

\* the callers whose lookup has built its request
WithRequest == {i \in 1..NumCallers : calls[i].pc \in {"built", "returned"}}

\* the query holds the parameters of the call and nothing else
OwnQuery(q, call) ==
    CASE call.op = "Movie" ->
            /\ HasNumber(q, "movie_id", call.id)
            /\ DOMAIN q = IF call.opts = <<>> THEN {"movie_id"} ELSE {"movie_id", "with_images"}
            /\ call.opts # <<>> => q["with_images"] = << <<"true">> >>
      [] call.op = "Suggestions" ->
            /\ HasNumber(q, "movie_id", call.id)
            /\ DOMAIN q = {"movie_id"}
      [] call.op = "ListMovies" ->
            IF call.opts = <<>> THEN DOMAIN q = {}
            ELSE q = [k \in {"query_term"} |-> << <<"some", " ", "title">> >>]

\* the request is the one the client's configuration and the call's own
\* arguments ask for
OwnRequest(r, call) ==
    /\ ~IsNil(r)
    /\ r.Method = "GET"
    /\ r.URL.Scheme = c.baseURL.Scheme
    /\ r.URL.Host = c.baseURL.Host
    /\ DirOf(r.URL.Path) = BaseDir(c.baseURLStr)
    /\ FileOf(r.URL.Path) = EndpointOf[call.op]
    /\ OwnQuery(ParseQuery(r.URL.RawQuery), call)
    /\ r.Header["Accept"] = <<"application", "/", "json">>
    /\ IF c.userAgent = <<>> THEN DOMAIN r.Header = {"Accept"}
       ELSE DOMAIN r.Header = {"Accept", "User-Agent"} /\ r.Header["User-Agent"] = c.userAgent

\* C13: with lookups made in parallel on one client, in any interleaving
\* and any number of times, the client stays what New produced, and the
\* URL, the query and the headers of every request are those of the
\* client's configuration and of the call's own arguments.
C13_ClientUntouched ==
    /\ \E opts \in LookupConfigs : c = NewResult(opts).c
    /\ \A i \in WithRequest : OwnRequest(calls[i].nr.req, calls[i].call)

\* Movie(10, MovieWithImages(true)) and Suggestions(-3) under way at once on
\* the client with a user agent, each with its own request
C13_Witness ==
    /\ c.userAgent = <<"test">>
    /\ WithRequest = {1, 2}
    /\ calls[1].call = [op |-> "Movie", id |-> 10,
                        opts |-> <<[opt |-> "MovieWithImages", b |-> TRUE]>>]
    /\ calls[2].call = [op |-> "Suggestions", id |-> -3]
    /\ calls[1].pc = "built" /\ calls[2].pc = "returned"
    /\ calls[1].nr.req.URL.Path = <<"/", "movie_details.json">>
    /\ calls[2].nr.req.URL.Path = <<"/", "movie_suggestions.json">>
    /\ DOMAIN ParseQuery(calls[1].nr.req.URL.RawQuery) = {"movie_id", "with_images"}
    /\ DOMAIN ParseQuery(calls[2].nr.req.URL.RawQuery) = {"movie_id"}

---------------------------------------------------------------------------
(* The command line program                                                *)

\* the program has run with arguments that are no command: not two of
\* them, or a first one that is neither "movie" nor "list"
RanWithoutCommand ==
    /\ pc = "returned" /\ op = "main"
    /\ Len(args.argv) # 2 \/ args.argv[1] \notin {<<"movie">>, <<"list">>}

\* the usage text was printed, the program returned normally and no
\* request was made
UsagePrinted ==
    /\ ret.val = <<"usage">>
    /\ ~ret.fatal /\ ~ret.panicked
    /\ roundTrips = 0

\* C14 as stated: with arguments that are no command the program prints the
\* usage text and returns normally without a request and without a fatal
\* exit, whatever the value of -yts_url.
C14_UsageWhateverURL == RanWithoutCommand => UsagePrinted

\* C14, amended: with arguments that are no command the program prints the
\* usage text and returns normally without a request when the value of
\* -yts_url parses as a URL; when it does not, the program ends in
\* log.Fatalf before it looks at the arguments, printing nothing and making
\* no request.
C14_UsageUnlessBadURL ==
    RanWithoutCommand =>
        IF ParseURL(args.ytsURL).err = "" THEN UsagePrinted
        ELSE /\ ret.fatal /\ ret.msg = <<"Failed to create ytsgo client">>
             /\ ret.val = <<>> /\ ~ret.panicked
             /\ roundTrips = 0

\* an unknown command with the default URL: the usage text
C14_Witness ==
    /\ RanWithoutCommand /\ UsagePrinted
    /\ args.ytsURL = DefaultBaseURL
    /\ args.argv = << <<"help">>, <<"1", "0">> >>

---------------------------------------------------------------------------
(* A result or an error                                                    *)

\* C15 as stated: every call of Movie, ListMovies or Suggestions that returns
\* returns exactly one of a usable result and an error: with an error there
\* is no result, and whenever the error is nil the *Movie of Movie and the
\* *Movies of ListMovies is not nil (the slice of Suggestions is usable when
\* nil), for every 200 response with status "ok", also one whose data is
\* absent, null or without the movie field.
C15_ResultOrError ==
    (LookupReturned /\ ~ret.panicked) =>
        /\ ret.err # NoErr => IsNil(ret.val)
        /\ (ret.err = NoErr /\ op \in {"Movie", "ListMovies"}) => ~IsNil(ret.val)

\* Movie answered 200 with status "ok" and no data returned a nil *Movie
\* with a nil error
C15_Witness ==
    /\ LookupReturned /\ op = "Movie" /\ Answered
    /\ rsp.StatusCode = 200 /\ rsp.Body.wf /\ StatusOf(rsp.Body) = statusOK
    /\ rsp.Body.data.k = "absent"
    /\ ret = Ret(Nil, NoErr)

---------------------------------------------------------------------------
(* Decoding a movie is total                                               *)

\* json.Unmarshal into a *Movie was called on a syntactically valid object
ObjectUnmarshalled ==
    /\ pc = "returned" /\ op = "Unmarshal"
    /\ args.data.wf /\ args.data.j.k = "obj"

\* C16 as stated: for every syntactically valid JSON object, also one whose
\* torrents or cast array holds null entries or is itself null or absent,
\* decoding a Movie ends by returning either a decoded Movie or an error,
\* and never aborts abnormally.
C16_DecodeTotal ==
    ObjectUnmarshalled =>
        /\ ~ret.panicked
        /\ (ret.err = NoErr) # IsNil(ret.val)

\* an object with good URLs and a good timestamp whose torrents array holds
\* a null entry: the loop over m.Torrents dereferenced the nil *Torrent
C16_Witness ==
    /\ ObjectUnmarshalled
    /\ args.data.j.f.urls = AllGoodURLs
    /\ args.data.j.f.date_uploaded_unix = JNum(1446320797, FALSE)
    /\ args.data.j.f.torrents.k = "arr"
    /\ \E i \in 1..Len(args.data.j.f.torrents.items) :
            args.data.j.f.torrents.items[i] = JNull
    /\ ret.panicked

=============================================================================
